---------------------------- MODULE Spec2Model ----------------------------
(***************************************************************************)
(* Verification model of the remote-subagents resilience layer:            *)
(*   - the metrics store (metrics.ts): counters and histograms behind the  *)
(*     promise-chain lock withLock;                                        *)
(*   - the shutdown orchestrator (shutdown.ts): the sandbox registry,      *)
(*     shutdownAll and the signal / fault handlers;                        *)
(*   - the retry utility (retry.ts): one retry call with its backoff.      *)
(* The runtime is single threaded: one action is one run-to-completion     *)
(* step of the event loop (a macrotask together with the microtasks it     *)
(* triggers).                                                              *)
(***************************************************************************)
EXTENDS Integers, Sequences, FiniteSets, TLC

VARIABLES
    \* ---- metrics.ts ----
    counters,        \* counters: Record<CounterName, number>
    histograms,      \* histograms: Record<HistogramName, number[]>
    lockQueue,       \* the chain of withLock calls that still await their turn
    submittedOps,    \* number of metrics operations submitted so far
    submittedTotal,  \* history: per counter, sum of the amounts submitted since
                     \* the last submitted reset
    submittedValues, \* history: per histogram, the values submitted since the last
                     \* submitted reset
    lastRead,        \* history: the outcome of the last read that ran
    measure,         \* per measureTime call: its state, histogram, the outcome of fn,
                     \* what it settled with and (history) the samples it appended
    settled,         \* history: the withLock promises fulfilled and rejected so far
    \* ---- shutdown.ts ----
    sandboxRegistry, \* sandboxRegistry: Map<string, SandboxEntry>, as a set of entries
    nextSandbox,     \* number of Sandbox objects handed to registerSandbox so far
    isShuttingDown,  \* let isShuttingDown
    shutdownPromise, \* let shutdownPromise: "null", or the state of the promise
    drainOpts,       \* opts of the shutdown execution
    sandboxIds,      \* const sandboxIds of the shutdown execution
    task,            \* per id: state of its shutdownPromises[] callback
    taskSandbox,     \* per id: the entry.sandbox the callback called kill on
    killState,       \* per sandbox: the promise returned by kill(): idle, pending, settled
    killCount,       \* history: per sandbox, number of kill() invocations
    gracefulTimers,  \* ids whose setTimeout(gracefulTimeoutMs) is armed and still raced
    overallTimer,    \* whether the setTimeout(graceful + force) is armed and still raced
    elapsed,         \* time since the timers of the execution were armed
    finishedAt,      \* history: elapsed when the execution finished
    waiters,         \* callers awaiting shutdownAll(), in call order
    executions,      \* history: number of shutdown executions started
    observed,        \* history: the executions whose outcome callers received
    calls,           \* number of shutdownAll calls made directly or by a fault handler
    handlerOpts,     \* opts captured by initializeSignalHandlers
    signalCount,     \* let signalCount
    exitCode,        \* the code passed to process.exit (meaningful once exited)
    exitBy,          \* the process.exit call that ended the process, "none" while running
    logs,            \* entries written by log()
    \* ---- retry.ts ----
    retryState,      \* the retry call: idle, pending (fn running), sleeping, resolved, rejected
    retryOpts,       \* options of the retry call
    attempt,         \* let attempt
    invocations,     \* history: number of invocations of fn
    thrown,          \* history: the values fn rejected with, in order
    lastError,       \* let lastError
    shouldRetryCalls,\* history: the calls of shouldRetry, with what each did
    onRetryCalls,    \* history: the calls of onRetry
    delays,          \* history: the delays calculateDelay returned
    waited,          \* history: the delays whose setTimeout has fired
    retrySettled,    \* what the promise of retry settled with
    \* ---- utils.ts ----
    utilInput,       \* the argument of the call of a pure function of utils.ts
    utilOutput,      \* what the call returned, once made
    \* ---- index.ts ----
    requests,        \* per tools/call request: where its handler stands and what it did
    created,         \* sandboxes Sandbox.create has handed out
    kills,           \* per sandbox: the requests whose handler called kill on it, in order
    serverLogs       \* what the handlers logged

metricsVars == <<counters, histograms, lockQueue, submittedOps, submittedTotal,
                 submittedValues, lastRead, measure, settled>>

shutdownVars == <<sandboxRegistry, nextSandbox, isShuttingDown, shutdownPromise, drainOpts,
                  sandboxIds, task, taskSandbox, killState, killCount, gracefulTimers,
                  overallTimer, elapsed, finishedAt, waiters, executions, observed, calls,
                  handlerOpts, signalCount, exitCode, exitBy, logs>>

retryVars == <<retryState, retryOpts, attempt, invocations, thrown, lastError,
               shouldRetryCalls, onRetryCalls, delays, waited, retrySettled>>

utilVars == <<utilInput, utilOutput>>

handlerVars == <<requests, created, kills, serverLogs>>

vars == <<metricsVars, shutdownVars, retryVars, utilVars, handlerVars>>

nonMetricsVars == <<shutdownVars, retryVars, utilVars, handlerVars>>

nonShutdownVars == <<metricsVars, retryVars, utilVars, handlerVars>>

nonRetryVars == <<metricsVars, shutdownVars, utilVars, handlerVars>>

nonUtilVars == <<metricsVars, shutdownVars, retryVars, handlerVars>>

nonHandlerVars == <<metricsVars, shutdownVars, retryVars, utilVars>>

-----------------------------------------------------------------------------
(* Bounds of the model *)

MaxOps == 3            \* metrics operations submitted in one run
MaxSandboxes == 2      \* Sandbox objects registered in one run
MaxCalls == 2          \* shutdownAll() calls made directly or by a fault handler
MaxRetries == 2        \* largest maxRetries passed to retry
MaxLen == 4            \* samples loaded into a histogram before its statistics are read
MaxArgLen == 3         \* characters of a string passed to escapeShellArg
MaxTaskLength == 3     \* largest maxTaskLength a schema is built with
MaxRequests == 2       \* tools/call requests handled, possibly at the same time
MaxNumber == 2         \* largest number thrown as a value

-----------------------------------------------------------------------------
(* metrics.ts *)

CounterName == {"tasks_spawned", "tasks_succeeded", "tasks_failed"}

HistogramName == {"sandbox_creation_time", "install_time", "execution_time"}

\* the names the calls of a run pass as arguments
CounterArgs == {"tasks_spawned", "tasks_failed"}

HistogramArgs == {"install_time", "execution_time"}

\* amounts passed to incrementCounter (1 is the default amount)
Amounts == {-1, 1, 2}

\* values passed to recordHistogram, and durations Date.now() - start of measureTime
Samples == {1, 2}

NoRead == [op |-> "none", name |-> "none", value |-> 0, expect |-> 0, pending |-> 0]

NoMeasure == [state |-> "idle", name |-> "none", fnOutcome |-> "none", appended |-> 0,
              settledWith |-> "none"]

\* the measureTime calls, by the name their recordHistogram call goes under in
\* the chain
Caller == <<"measureTime", "measureTime, second call">>

MeasureCalls == DOMAIN Caller

NoneSettled == [fulfilled |-> 0, rejected |-> 0]

\* the position sort((a, b) => a - b) gives the element at position i of values:
\* behind the smaller elements and the equal ones that stand before it
SortedPosition(values, i) ==
    1 + Cardinality({j \in 1..Len(values) :
                        values[j] < values[i] \/ (values[j] = values[i] /\ j < i)})

\* [...values].sort((a, b) => a - b)
Sort(values) ==
    [k \in 1..Len(values) |->
        values[CHOOSE i \in 1..Len(values) : SortedPosition(values, i) = k]]

\* sorted.reduce((acc, val) => acc + val, 0)
RECURSIVE Sum(_)
Sum(values) == IF values = <<>> THEN 0 ELSE Head(values) + Sum(Tail(values))

RECURSIVE GCD(_, _)
GCD(a, b) == IF b = 0 THEN a ELSE GCD(b, a % b)

\* the number a / b, b > 0, as the fraction <<numerator, denominator>> in lowest terms
Quotient(a, b) == <<a \div GCD(a, b), b \div GCD(a, b)>>

\* Math.ceil(a / b) for a >= 0, b > 0
Ceil(a, b) == (a + b - 1) \div b

\* percentile(sortedValues, p); positions of the model's sequences start at 1
\* (variant: Math.floor in place of Math.ceil)
percentileFloor(sortedValues, p) ==
    IF Len(sortedValues) = 0 THEN 0
    ELSE LET index == ((p * Len(sortedValues)) \div 100) - 1
         IN sortedValues[(IF index > 0 THEN index ELSE 0) + 1]
percentile(sortedValues, p) ==
    IF Len(sortedValues) = 0 THEN 0
    ELSE LET index == Ceil(p * Len(sortedValues), 100) - 1
         IN sortedValues[(IF index > 0 THEN index ELSE 0) + 1]

\* calculateStats(values)
calculateStats(values) ==
    IF Len(values) = 0
    THEN [count |-> 0, min |-> 0, max |-> 0, mean |-> Quotient(0, 1), median |-> 0,
          p95 |-> 0, p99 |-> 0]
    ELSE LET sorted == Sort(values)
             sum == Sum(sorted)
         IN [count |-> Len(sorted),
             min |-> sorted[1],
             max |-> sorted[Len(sorted)],
             mean |-> Quotient(sum, Len(sorted)),
             median |-> percentile(sorted, 50),
             p95 |-> percentile(sorted, 95),
             p99 |-> percentile(sorted, 99)]

\* the MetricsSnapshot getMetrics builds from counters c and histograms h (without
\* its timestamp)
Snapshot(c, h) == [counters |-> c, histograms |-> [n \in HistogramName |-> calculateStats(h[n])]]

InitMetrics ==
    /\ counters = [n \in CounterName |-> 0]
    /\ histograms = [n \in HistogramName |-> <<>>]
    /\ lockQueue = <<>>
    /\ submittedOps = 0
    /\ submittedTotal = [n \in CounterName |-> 0]
    /\ submittedValues = [n \in HistogramName |-> <<>>]
    /\ lastRead = NoRead
    /\ measure = [c \in MeasureCalls |-> NoMeasure]
    /\ settled = NoneSettled

\* Number of operations of lockQueue that increment counter name.
RECURSIVE PendingIncrements(_, _)
PendingIncrements(q, name) ==
    IF q = <<>> THEN 0
    ELSE (IF Head(q).op = "incrementCounter" /\ Head(q).name = name THEN 1 ELSE 0)
         + PendingIncrements(Tail(q), name)

\* the record of one withLock call: the operation, its arguments and, for the
\* history, what a read is expected to return and who made the call
LockedCall(op, name, amount, expect, pending, by) ==
    [op |-> op, name |-> name, amount |-> amount, expect |-> expect, pending |-> pending,
     by |-> by]

\* withLock, first half: the call takes currentLock = lockPromise, installs a new
\* lockPromise and suspends at `await currentLock`, behind every earlier call.
Enqueue(q, operation) == Append(q, operation)

\* The position in the chain of the call whose `await currentLock` resumes next:
\* each call awaits the promise of the call submitted just before it.
\* (variant: the most recent call resumes first)
NextInChainLast(q) == Len(q)
NextInChain(q) == 1

Remove(q, i) == [j \in 1..(Len(q) - 1) |-> IF j < i THEN q[j] ELSE q[j + 1]]

\* incrementCounter(name, amount): submission
SubmitIncrement(name, amount) ==
    /\ submittedOps < MaxOps
    /\ submittedOps' = submittedOps + 1
    /\ lockQueue' = Enqueue(lockQueue, LockedCall("incrementCounter", name, amount, 0, 0, "api"))
    /\ submittedTotal' = [submittedTotal EXCEPT ![name] = @ + amount]
    /\ UNCHANGED <<counters, histograms, submittedValues, lastRead, measure, settled>>
    /\ UNCHANGED nonMetricsVars

\* recordHistogram(name, value): submission
SubmitRecord(name, value) ==
    /\ submittedOps < MaxOps
    /\ submittedOps' = submittedOps + 1
    /\ lockQueue' = Enqueue(lockQueue, LockedCall("recordHistogram", name, value, 0, 0, "api"))
    /\ submittedValues' = IF name \in HistogramName
                          THEN [submittedValues EXCEPT ![name] = Append(@, value)]
                          ELSE submittedValues
    /\ UNCHANGED <<counters, histograms, submittedTotal, lastRead, measure, settled>>
    /\ UNCHANGED nonMetricsVars

\* getCounter(name): submission
SubmitGetCounter(name) ==
    /\ submittedOps < MaxOps
    /\ submittedOps' = submittedOps + 1
    /\ lockQueue' = Enqueue(lockQueue,
                            LockedCall("getCounter", name, 0, submittedTotal[name],
                                       PendingIncrements(lockQueue, name), "api"))
    /\ UNCHANGED <<counters, histograms, submittedTotal, submittedValues, lastRead, measure, settled>>
    /\ UNCHANGED nonMetricsVars

\* getHistogramValues(name): submission
SubmitGetHistogramValues(name) ==
    /\ submittedOps < MaxOps
    /\ submittedOps' = submittedOps + 1
    /\ lockQueue' = Enqueue(lockQueue,
                            LockedCall("getHistogramValues", name, 0, submittedValues[name],
                                       0, "api"))
    /\ UNCHANGED <<counters, histograms, submittedTotal, submittedValues, lastRead, measure, settled>>
    /\ UNCHANGED nonMetricsVars

\* getMetrics(): submission
SubmitGetMetrics ==
    /\ submittedOps < MaxOps
    /\ submittedOps' = submittedOps + 1
    /\ lockQueue' = Enqueue(lockQueue,
                            LockedCall("getMetrics", "all", 0,
                                       Snapshot(submittedTotal, submittedValues), 0, "api"))
    /\ UNCHANGED <<counters, histograms, submittedTotal, submittedValues, lastRead, measure, settled>>
    /\ UNCHANGED nonMetricsVars

\* resetMetrics(): submission
SubmitReset ==
    /\ submittedOps < MaxOps
    /\ submittedOps' = submittedOps + 1
    /\ lockQueue' = Enqueue(lockQueue, LockedCall("resetMetrics", "all", 0, 0, 0, "api"))
    /\ submittedTotal' = [n \in CounterName |-> 0]
    /\ submittedValues' = [n \in HistogramName |-> <<>>]
    /\ UNCHANGED <<counters, histograms, lastRead, measure, settled>>
    /\ UNCHANGED nonMetricsVars

\* measureTime(name, fn) up to its first suspension: start = Date.now(), fn()
\* invoked and awaited. (The call counts as one metrics operation, for the sample
\* it records later.)
CallMeasureTime(c, name) ==
    /\ measure[c].state = "idle"
    /\ submittedOps < MaxOps
    /\ submittedOps' = submittedOps + 1
    /\ measure' = [measure EXCEPT ![c].state = "running", ![c].name = name]
    /\ UNCHANGED <<counters, histograms, lockQueue, submittedTotal, submittedValues, lastRead,
                   settled>>
    /\ UNCHANGED nonMetricsVars

\* whether measureTime records a sample when fn settled with outcome: the
\* recording stands in a finally block
\* (variant: the recording follows the await, outside any finally)
RecordsOnSuccessOnly(outcome) == outcome = "resolved"
Records(outcome) == TRUE

\* what measureTime settles with once its finally block has completed
\* (variant: every failure replaced by an error of the wrapper)
SettledWithWrapped(outcome) ==
    IF outcome = "resolved" THEN "result of fn" ELSE "error of measureTime"
SettledWith(outcome) == IF outcome = "resolved" THEN "result of fn" ELSE "error of fn"

\* the promise of fn() settles: the finally block computes the duration and calls
\* recordHistogram(name, duration), which suspends in withLock
MeasuredFnSettles(c, outcome, duration) ==
    /\ measure[c].state = "running"
    /\ IF Records(outcome)
       THEN /\ measure' = [measure EXCEPT ![c].state = "recording", ![c].fnOutcome = outcome]
            /\ lockQueue' = Enqueue(lockQueue,
                                    LockedCall("recordHistogram", measure[c].name, duration,
                                               0, 0, Caller[c]))
            /\ submittedValues' =
                    [submittedValues EXCEPT ![measure[c].name] = Append(@, duration)]
       ELSE /\ measure' = [measure EXCEPT ![c].state = outcome, ![c].fnOutcome = outcome,
                                          ![c].settledWith = SettledWith(outcome)]
            /\ UNCHANGED <<lockQueue, submittedValues>>
    /\ UNCHANGED <<counters, histograms, submittedOps, submittedTotal, lastRead, settled>>
    /\ UNCHANGED nonMetricsVars

\* the stored samples once calculateStats has run on them: it sorts
\* `[...values]`, a copy
\* (variant: the stored array sorted in place)
StoredAfterStatsInPlace(values) == Sort(values)
StoredAfterStats(values) == values

\* whether the array a read returns is the stored array itself:
\* `[...histograms[name]]` builds a new one
\* (variant: getHistogramValues hands out the stored array)
ReturnsStoredValues(op) == op = "getHistogramValues"
ReturnsStored(op) == FALSE

\* the caller changes the array getHistogramValues returned to it: reverses it
\* and pushes a 0, a value no sample has
Changed(values) == Append([i \in 1..Len(values) |-> values[Len(values) + 1 - i]], 0)

ChangeReturned ==
    /\ lastRead.op = "getHistogramValues"
    /\ \A i \in 1..Len(lastRead.value) : lastRead.value[i] # 0
    /\ lastRead' = [lastRead EXCEPT !.value = Changed(@)]
    /\ histograms' = IF ReturnsStored(lastRead.op)
                     THEN [histograms EXCEPT ![lastRead.name] = Changed(lastRead.value)]
                     ELSE histograms
    /\ UNCHANGED <<counters, lockQueue, submittedOps, submittedTotal, submittedValues, measure,
                   settled>>
    /\ UNCHANGED nonMetricsVars

\* whether the body of a locked call throws: histograms[name] is undefined for a
\* name that is no histogram, and neither push nor the spread accept undefined
Throws(o) == o.op \in {"recordHistogram", "getHistogramValues"} /\ o.name \notin HistogramName

\* whether withLock resolves its lock promise after a body that threw or not:
\* `resolve()` stands in a finally block
\* (variant: the lock resolved after a body that returned only)
ReleasedOnReturnOnly(threw) == ~threw
Released(threw) == TRUE

\* what the promise of a withLock call settles with
\* (variant: every call fulfilled, the error of the body lost)
OutcomeFulfilled(threw) == "fulfilled"
Outcome(threw) == IF threw THEN "rejected" ELSE "fulfilled"

\* whether a measureTime call in the state m holds the lock: measureTime takes
\* it only through the recordHistogram of its finally block
\* (variant: the wrapped operation run inside withLock)
HoldsLockWhileRunning(m) == m.state = "running"
HoldsLock(m) == FALSE

\* withLock, second half: `await currentLock` resumes, fn() runs to completion and
\* the call's own lock promise is resolved; a measureTime awaiting the call
\* resumes and settles with the outcome of its fn.
RunLocked ==
    /\ lockQueue # <<>>
    /\ LET i == NextInChain(lockQueue)
           o == lockQueue[i]
           threw == Throws(o)
       IN /\ o.op # "lock never released"
          /\ \A c \in MeasureCalls : ~HoldsLock(measure[c])
          /\ lockQueue' = IF Released(threw)
                          THEN Remove(lockQueue, i)
                          ELSE [lockQueue EXCEPT ![i].op = "lock never released"]
          /\ settled' = [settled EXCEPT ![Outcome(threw)] = @ + 1]
          /\ IF threw
             THEN UNCHANGED <<counters, histograms, lastRead>>
             ELSE CASE o.op = "incrementCounter" ->
                    /\ counters' = [counters EXCEPT ![o.name] = @ + o.amount]
                    /\ UNCHANGED <<histograms, lastRead>>
               [] o.op = "recordHistogram" ->
                    /\ histograms' = [histograms EXCEPT ![o.name] = Append(@, o.amount)]
                    /\ UNCHANGED <<counters, lastRead>>
               [] o.op = "getCounter" ->
                    /\ lastRead' = [op |-> o.op, name |-> o.name, value |-> counters[o.name],
                                    expect |-> o.expect, pending |-> o.pending]
                    /\ UNCHANGED <<counters, histograms>>
               [] o.op = "getHistogramValues" ->
                    /\ lastRead' = [op |-> o.op, name |-> o.name, value |-> histograms[o.name],
                                    expect |-> o.expect, pending |-> o.pending]
                    /\ UNCHANGED <<counters, histograms>>
               [] o.op = "getMetrics" ->
                    /\ lastRead' = [op |-> o.op, name |-> o.name,
                                    value |-> Snapshot(counters, histograms),
                                    expect |-> o.expect, pending |-> o.pending]
                    /\ histograms' = [n \in HistogramName |-> StoredAfterStats(histograms[n])]
                    /\ UNCHANGED counters
               [] o.op = "resetMetrics" ->
                    /\ counters' = [n \in CounterName |-> 0]
                    /\ histograms' = [n \in HistogramName |-> <<>>]
                    /\ UNCHANGED lastRead
          /\ IF \E c \in MeasureCalls : Caller[c] = o.by
             THEN LET c == CHOOSE c \in MeasureCalls : Caller[c] = o.by
                  IN measure' =
                        [measure EXCEPT
                            ![c].state = measure[c].fnOutcome,
                            ![c].appended = @ + Len(histograms'[measure[c].name])
                                              - Len(histograms[measure[c].name]),
                            ![c].settledWith = SettledWith(measure[c].fnOutcome)]
             ELSE UNCHANGED measure
    /\ UNCHANGED <<submittedOps, submittedTotal, submittedValues>>
    /\ UNCHANGED nonMetricsVars

NextMetrics ==
    \/ \E name \in CounterArgs, amount \in Amounts : SubmitIncrement(name, amount)
    \/ \E name \in HistogramArgs, value \in Samples : SubmitRecord(name, value)
    \/ \E name \in CounterArgs : SubmitGetCounter(name)
    \/ \E name \in HistogramArgs : SubmitGetHistogramValues(name)
    \/ SubmitGetMetrics
    \/ SubmitReset
    \/ \E name \in HistogramArgs : CallMeasureTime(1, name)
    \/ \E outcome \in {"resolved", "rejected"}, duration \in Samples :
          MeasuredFnSettles(1, outcome, duration)
    \/ RunLocked


-----------------------------------------------------------------------------
(* shutdown.ts: registry and logger *)

\* the ids passed to registerSandbox and unregisterSandbox
Ids == {"a", "b"}

Sandboxes == 1..MaxSandboxes

\* gracefulTimeoutMs, in units of the model's clock
GracefulTimeouts == {2}

\* forceTimeoutMs is any number the caller passes; a negative one puts the overall
\* ceiling before the per-sandbox timers
ForceTimeouts == {-1, 1}

ShutdownOptions ==
    [gracefulTimeoutMs : GracefulTimeouts, forceTimeoutMs : ForceTimeouts, verbose : BOOLEAN]

NoOptions == [gracefulTimeoutMs |-> 0, forceTimeoutMs |-> 0, verbose |-> FALSE]

\* defaultOptions.verbose
defaultVerbose == FALSE

Exited == exitBy # "none"

\* log(message, verbose, level): the entries the call writes
Log(message, about, verbose, level) ==
    IF verbose \/ level = "error"
    THEN {[level |-> level, message |-> message, about |-> about]}
    ELSE {}

RegistryHas(reg, id) == \E e \in reg : e.id = id

RegistryGet(reg, id) == CHOOSE e \in reg : e.id = id

\* sandboxRegistry.set(id, entry)
\* (variant: the entry added beside an existing one for the id)
RegistryAdd(reg, id, sandbox) == reg \cup {[id |-> id, sandbox |-> sandbox]}
RegistrySet(reg, id, sandbox) ==
    {e \in reg : e.id # id} \cup {[id |-> id, sandbox |-> sandbox]}

\* sandboxRegistry.delete(id)
RegistryDelete(reg, id) == {e \in reg : e.id # id}

\* what unregisterSandbox(id) returns: the result of sandboxRegistry.delete(id)
\* (variant: true whatever the registry holds)
unregisterSandboxReturnsTrue(id) == TRUE
unregisterSandboxReturns(id) == RegistryHas(sandboxRegistry, id)

\* getActiveSandboxCount()
getActiveSandboxCount == Cardinality(sandboxRegistry)

\* isShutdownInProgress()
isShutdownInProgress == isShuttingDown

InitShutdown ==
    /\ sandboxRegistry = {}
    /\ nextSandbox = 0
    /\ isShuttingDown = FALSE
    /\ shutdownPromise = "null"
    /\ drainOpts = NoOptions
    /\ sandboxIds = {}
    /\ task = [i \in Ids |-> "none"]
    /\ taskSandbox = [i \in Ids |-> 0]
    /\ killState = [s \in Sandboxes |-> "idle"]
    /\ killCount = [s \in Sandboxes |-> 0]
    /\ gracefulTimers = {}
    /\ overallTimer = FALSE
    /\ elapsed = 0
    /\ finishedAt = 0
    /\ waiters = <<>>
    /\ executions = 0
    /\ observed = {}
    /\ calls = 0
    /\ handlerOpts \in ShutdownOptions
    /\ signalCount = 0
    /\ exitCode = 0
    /\ exitBy = "none"
    /\ logs = Log("Signal handlers initialized", "", handlerOpts.verbose, "info")

execVars == <<isShuttingDown, shutdownPromise, drainOpts, sandboxIds, task, taskSandbox,
              killState, killCount, gracefulTimers, overallTimer, elapsed, finishedAt,
              executions>>

\* registerSandbox(id, sandbox, metadata) with a new Sandbox object
registerSandbox(id) ==
    /\ ~Exited
    /\ nextSandbox < MaxSandboxes
    /\ nextSandbox' = nextSandbox + 1
    /\ sandboxRegistry' = RegistrySet(sandboxRegistry, id, nextSandbox + 1)
    /\ UNCHANGED <<execVars, waiters, observed, calls, handlerOpts, signalCount, exitCode, exitBy, logs>>
    /\ UNCHANGED nonShutdownVars

\* unregisterSandbox(id)
unregisterSandbox(id) ==
    /\ ~Exited
    /\ sandboxRegistry' = RegistryDelete(sandboxRegistry, id)
    /\ UNCHANGED <<nextSandbox, execVars, waiters, observed, calls, handlerOpts,
                   signalCount, exitCode, exitBy, logs>>
    /\ UNCHANGED nonShutdownVars

-----------------------------------------------------------------------------
(* shutdown.ts: shutdownAll *)

\* the timers an execution over ids arms: one setTimeout(gracefulTimeoutMs) per id
\* for the race with its kill(), and the overall setTimeout
\* (variant: kill() awaited without any timer)
ArmNoTimers(ids) == [graceful |-> {}, overall |-> FALSE]
ArmTimers(ids) == [graceful |-> ids, overall |-> ids # {}]

\* The async body of shutdownAll up to its first suspension: the snapshot of the
\* keys, one kill() and one armed timer per id, then the overall timer.
StartExecution(opts) ==
    LET ids == {e.id : e \in sandboxRegistry}
        killed == {RegistryGet(sandboxRegistry, i).sandbox : i \in ids}
    IN /\ isShuttingDown' = TRUE
       /\ drainOpts' = opts
       /\ sandboxIds' = ids
       /\ executions' = executions + 1
       /\ shutdownPromise' = IF ids = {} THEN "resolved" ELSE "pending"
       /\ task' = [i \in Ids |-> IF i \in ids THEN "racing" ELSE "none"]
       /\ taskSandbox' = [i \in Ids |->
                            IF i \in ids THEN RegistryGet(sandboxRegistry, i).sandbox ELSE 0]
       /\ killState' = [s \in Sandboxes |-> IF s \in killed THEN "pending" ELSE killState[s]]
       /\ killCount' = [s \in Sandboxes |-> IF s \in killed THEN killCount[s] + 1
                                                           ELSE killCount[s]]
       /\ gracefulTimers' = ArmTimers(ids).graceful
       /\ overallTimer' = ArmTimers(ids).overall
       /\ elapsed' = 0
       /\ finishedAt' = 0

\* what StartExecution logs
StartLogs(opts) ==
    LET ids == {e.id : e \in sandboxRegistry}
    IN Log("Starting graceful shutdown", ToString(Cardinality(ids)), opts.verbose, "info")
       \cup (IF ids = {}
             THEN Log("No active sandboxes to terminate", "", opts.verbose, "info")
             ELSE UNION {Log("Terminating sandbox", i, opts.verbose, "info") : i \in ids})

\* shutdownAll(options): `if (shutdownPromise) return shutdownPromise`, else a new
\* execution starts
\* (variant: no check of shutdownPromise)
ShutdownAllUnguarded(opts) == StartExecution(opts)
ShutdownAll(opts) ==
    IF shutdownPromise # "null" THEN UNCHANGED execVars ELSE StartExecution(opts)

ShutdownAllLogs(opts) == IF shutdownPromise # "null" THEN {} ELSE StartLogs(opts)

\* the exit code handleSignal passes to process.exit once `await shutdownAll(opts)`
\* has settled
\* (variant: exit code 1 on every path)
SignalExitCodeAlwaysOne(outcome) == 1
SignalExitCode(outcome) == IF outcome = "resolved" THEN 0 ELSE 1

\* the handlers among the callers awaiting the shutdown promise
RECURSIVE FirstHandler(_)
FirstHandler(ws) ==
    IF ws = <<>> THEN "none"
    ELSE IF Head(ws) \in {"signal", "fault"} THEN Head(ws)
    ELSE FirstHandler(Tail(ws))

\* The shutdown promise settles: every awaiting caller resumes in call order; the
\* first handler among them ends the process.
ResumeWaiters(outcome) ==
    /\ waiters' = <<>>
    /\ exitBy' = FirstHandler(waiters)
    /\ exitCode' = CASE FirstHandler(waiters) = "signal" -> SignalExitCode(outcome)
                     [] FirstHandler(waiters) = "fault" -> 1
                     [] OTHER -> exitCode

\* the flag isShuttingDown once the execution has run to its end (never reset)
\* (variant: the flag cleared at the end of the execution)
FlagAfterReset == FALSE
FlagAfter == isShuttingDown

\* How the promise of the execution settles when the races ended as in t and the
\* overall timer has fired or not: every callback catches its failure,
\* Promise.allSettled never rejects and the overall race stands in a try / catch.
\* (variant: a failed teardown or the overall timeout rejects the promise)
DrainOutcomePropagated(t, timedOut) ==
    IF timedOut \/ \E i \in sandboxIds : t[i] \in {"failed", "timeout"}
    THEN "rejected" ELSE "resolved"
DrainOutcome(t, timedOut) == "resolved"

\* tail of the execution: sandboxRegistry.clear(), "Shutdown complete"
FinishExecution(moreLogs, t, timedOut) ==
    /\ sandboxRegistry' = {}
    /\ logs' = logs \cup moreLogs \cup Log("Shutdown complete", "", drainOpts.verbose, "info")
    /\ shutdownPromise' = DrainOutcome(t, timedOut)
    /\ isShuttingDown' = FlagAfter
    /\ overallTimer' = FALSE
    /\ finishedAt' = elapsed
    /\ ResumeWaiters(DrainOutcome(t, timedOut))

\* Promise.allSettled(shutdownPromises) has resolved: every callback has finished
\* (variant: Promise.all semantics, the first failure ends the wait)
AllOrFirstFailure(t) ==
    \/ \A i \in sandboxIds : t[i] # "racing"
    \/ \E i \in sandboxIds : t[i] \in {"failed", "timeout"}
AllSettled(t) == \A i \in sandboxIds : t[i] # "racing"

\* what the callback of id logs when its race settles with outcome
\* (variant: the catch branch logs nothing)
TaskLogsSilent(id, outcome) ==
    IF outcome = "terminated"
    THEN Log("Sandbox terminated successfully", id, drainOpts.verbose, "info")
    ELSE {}
TaskLogs(id, outcome) ==
    IF outcome = "terminated"
    THEN Log("Sandbox terminated successfully", id, drainOpts.verbose, "info")
    ELSE Log("Failed to gracefully terminate sandbox", id, drainOpts.verbose, "warn")

\* the registry after the callback of id has handled outcome: both the try and the
\* catch branch delete the entry
\* (variant: only the try branch deletes)
TaskRegistryKeepOnFailure(reg, id, outcome) ==
    IF outcome = "terminated" THEN RegistryDelete(reg, id) ELSE reg
TaskRegistry(reg, id, outcome) == RegistryDelete(reg, id)

\* The race of id settles with outcome: the callback deletes the entry and logs;
\* when it was the last one, Promise.allSettled wins the overall race and the
\* execution finishes. (A timer whose race is decided is dropped from the armed
\* ones: its callback rejects a promise that nothing awaits any more.)
SettleTask(id, outcome) ==
    LET t == [task EXCEPT ![id] = outcome]
    IN /\ task' = t
       /\ gracefulTimers' = gracefulTimers \ {id}
       /\ IF shutdownPromise = "pending" /\ AllSettled(t)
          THEN FinishExecution(TaskLogs(id, outcome), t, FALSE)
          ELSE /\ sandboxRegistry' = TaskRegistry(sandboxRegistry, id, outcome)
               /\ logs' = logs \cup TaskLogs(id, outcome)
               /\ UNCHANGED <<shutdownPromise, isShuttingDown, overallTimer, finishedAt,
                              waiters, exitBy, exitCode>>

\* whether a kill() promise that settles as `how` after its race was decided
\* counts as an unhandled rejection: Promise.race has subscribed to the promise
\* with a rejection handler, so it never does
\* (variant: nothing subscribed, a late rejection is unhandled)
UnhandledWhenRejected(how) == how = "rejected"
Unhandled(how) == FALSE

\* the promise returned by sandbox.kill() settles; after a race already decided
\* by its timer nothing of the execution runs any more
KillSettles(s, how) ==
    /\ ~Exited
    /\ killState[s] = "pending"
    /\ killState' = [killState EXCEPT ![s] = "settled"]
    /\ IF \E i \in sandboxIds : taskSandbox[i] = s /\ task[i] = "racing"
       THEN LET i == CHOOSE i \in sandboxIds : taskSandbox[i] = s /\ task[i] = "racing"
            IN SettleTask(i, IF how = "resolved" THEN "terminated" ELSE "failed")
       ELSE IF Unhandled(how)
       THEN /\ logs' = logs \cup Log("unhandledRejection", "", TRUE, "error")
            /\ IF shutdownPromise = "pending"
               THEN waiters' = Append(waiters, "fault") /\ UNCHANGED <<exitBy, exitCode>>
               ELSE exitBy' = "fault" /\ exitCode' = 1 /\ UNCHANGED waiters
            /\ UNCHANGED <<sandboxRegistry, task, shutdownPromise, isShuttingDown,
                           gracefulTimers, overallTimer, finishedAt>>
       ELSE UNCHANGED <<sandboxRegistry, task, logs, shutdownPromise, isShuttingDown,
                        gracefulTimers, overallTimer, finishedAt, waiters, exitBy, exitCode>>
    /\ UNCHANGED <<nextSandbox, drainOpts, sandboxIds, taskSandbox, killCount, elapsed,
                   executions, observed, calls, handlerOpts, signalCount>>
    /\ UNCHANGED nonShutdownVars

\* delays of the armed timers
GracefulDeadline == drainOpts.gracefulTimeoutMs

OverallDeadline == drainOpts.gracefulTimeoutMs + drainOpts.forceTimeoutMs

\* the per-sandbox timer of id fires: reject(new Error("Timeout killing sandbox"))
GracefulTimerFires(id) ==
    /\ ~Exited
    /\ id \in gracefulTimers
    /\ elapsed >= GracefulDeadline
    /\ IF task[id] = "racing"
       THEN SettleTask(id, "timeout")
       ELSE /\ gracefulTimers' = gracefulTimers \ {id}
            /\ UNCHANGED <<sandboxRegistry, task, logs, shutdownPromise, isShuttingDown,
                           overallTimer, finishedAt, waiters, exitBy, exitCode>>
    /\ UNCHANGED <<nextSandbox, drainOpts, sandboxIds, taskSandbox, killState, killCount,
                   elapsed, executions, observed, calls, handlerOpts, signalCount>>
    /\ UNCHANGED nonShutdownVars

\* the overall timer fires: reject(new Error("Overall shutdown timeout exceeded")).
\* Timers run in the order of their expiry, equal expiries in the order armed, so
\* it runs after the per-sandbox timers unless its delay is the shorter one.
OverallTimerFires ==
    /\ ~Exited
    /\ overallTimer
    /\ elapsed >= OverallDeadline
    /\ (GracefulDeadline <= OverallDeadline => gracefulTimers = {})
    /\ IF shutdownPromise = "pending"
       THEN FinishExecution(Log("Shutdown timeout", "", drainOpts.verbose, "error"), task, TRUE)
       ELSE /\ overallTimer' = FALSE
            /\ UNCHANGED <<sandboxRegistry, logs, shutdownPromise, isShuttingDown, finishedAt,
                           waiters, exitBy, exitCode>>
    /\ UNCHANGED <<nextSandbox, drainOpts, sandboxIds, task, taskSandbox, killState, killCount,
                   gracefulTimers, elapsed, executions, observed, calls, handlerOpts,
                   signalCount>>
    /\ UNCHANGED nonShutdownVars

\* time passes; an armed timer fires when its delay has elapsed
Tick ==
    /\ ~Exited
    /\ gracefulTimers # {} \/ overallTimer
    /\ gracefulTimers # {} => elapsed < GracefulDeadline
    /\ overallTimer => elapsed < OverallDeadline
    /\ elapsed' = elapsed + 1
    /\ UNCHANGED <<sandboxRegistry, nextSandbox, isShuttingDown, shutdownPromise, drainOpts,
                   sandboxIds, task, taskSandbox, killState, killCount, gracefulTimers,
                   overallTimer, finishedAt, waiters, executions, observed, calls,
                   handlerOpts, signalCount, exitCode, exitBy, logs>>
    /\ UNCHANGED nonShutdownVars

-----------------------------------------------------------------------------
(* shutdown.ts: callers of shutdownAll *)

\* A caller does `await shutdownAll(opts)`: it receives the promise of the current
\* execution and resumes at once when that promise is already settled.
AwaitShutdown(who) ==
    /\ observed' = observed \cup {executions'}
    /\ IF shutdownPromise' \in {"resolved", "rejected"}
       THEN /\ waiters' = waiters
            /\ exitBy' = IF who = "api" THEN exitBy ELSE who
            /\ exitCode' = CASE who = "signal" -> SignalExitCode(shutdownPromise')
                             [] who = "fault" -> 1
                             [] OTHER -> exitCode
       ELSE /\ waiters' = Append(waiters, who)
            /\ UNCHANGED <<exitBy, exitCode>>

\* a direct call of shutdownAll(options)
CallShutdownAll(opts) ==
    /\ ~Exited
    /\ calls < MaxCalls
    /\ calls' = calls + 1
    /\ ShutdownAll(opts)
    /\ logs' = logs \cup ShutdownAllLogs(opts)
    /\ AwaitShutdown("api")
    /\ UNCHANGED <<sandboxRegistry, nextSandbox, handlerOpts, signalCount>>
    /\ UNCHANGED nonShutdownVars

\* `if (signalCount > 1)` in handleSignal, after signalCount++
\* (variant: no signal is treated as a repeated one)
ForceExitNever(count) == FALSE
ForceExit(count) == count > 1

\* handleSignal(signal), for SIGINT and SIGTERM
handleSignal(signal) ==
    /\ ~Exited
    /\ signalCount' = signalCount + 1
    /\ IF ForceExit(signalCount + 1)
       THEN /\ logs' = logs \cup Log("Received signal", ToString(signalCount + 1), handlerOpts.verbose,
                                      "info")
                            \cup Log("Forcing immediate exit", "", handlerOpts.verbose, "warn")
            /\ exitBy' = "forced"
            /\ exitCode' = 1
            /\ UNCHANGED <<execVars, waiters, observed>>
       ELSE /\ logs' = logs \cup Log("Received signal", ToString(signalCount + 1), handlerOpts.verbose,
                                      "info")
                            \cup ShutdownAllLogs(handlerOpts)
            /\ ShutdownAll(handlerOpts)
            /\ AwaitShutdown("signal")
    /\ UNCHANGED <<sandboxRegistry, nextSandbox, calls, handlerOpts>>
    /\ UNCHANGED nonShutdownVars

\* the uncaughtException and unhandledRejection handlers
handleFault(kind) ==
    /\ ~Exited
    /\ calls < MaxCalls
    /\ calls' = calls + 1
    /\ logs' = logs \cup Log(kind, "", TRUE, "error") \cup ShutdownAllLogs(handlerOpts)
    /\ ShutdownAll(handlerOpts)
    /\ AwaitShutdown("fault")
    /\ UNCHANGED <<sandboxRegistry, nextSandbox, handlerOpts, signalCount>>
    /\ UNCHANGED nonShutdownVars

NextShutdown ==
    \/ \E id \in Ids : registerSandbox(id)
    \/ \E id \in Ids : unregisterSandbox(id)
    \/ \E opts \in ShutdownOptions : CallShutdownAll(opts)
    \/ \E signal \in {"SIGINT", "SIGTERM"} : handleSignal(signal)
    \/ \E kind \in {"uncaughtException", "unhandledRejection"} : handleFault(kind)
    \/ \E s \in Sandboxes, how \in {"resolved", "rejected"} : KillSettles(s, how)
    \/ \E id \in Ids : GracefulTimerFires(id)
    \/ OverallTimerFires
    \/ Tick

-----------------------------------------------------------------------------
(* retry.ts *)

\* maxRetries, baseDelayMs and maxDelayMs of RetryOptions, in units of the model's
\* clock; onRetry tells whether the observer is provided
RetryOptions ==
    [maxRetries : 0..MaxRetries, baseDelayMs : {0, 1, 2}, maxDelayMs : {2, 4}, onRetry : BOOLEAN]

NoRetryOptions == [maxRetries |-> 0, baseDelayMs |-> 0, maxDelayMs |-> 0, onRetry |-> FALSE]

\* what fn can reject with: an error of the taxonomy of errors.ts, another Error,
\* a value that is not an Error
ThrownKinds == {"RemoteAgentError", "Error", "string"}

\* the values Math.random() returns, as <<numerator, denominator>>
MathRandom == {<<0, 4>>, <<1, 4>>, <<2, 4>>, <<3, 4>>}

\* a value thrown at attempt `from`; `wraps` marks an Error made from another value
Value(kind, from) == [kind |-> kind, from |-> from, wraps |-> FALSE]

NoValue == Value("none", 0)

InstanceOfError(v) == v.kind \in {"RemoteAgentError", "Error"}

\* `error instanceof Error ? error : new Error(String(error))`
\* (variant: the thrown value kept as it is)
CoerceNothing(v) == v
Coerce(v) == IF InstanceOfError(v) THEN v ELSE [kind |-> "Error", from |-> v.from, wraps |-> TRUE]

\* calculateDelay(attemptNumber, baseDelayMs, maxDelayMs) with Math.random()
\* returning random[1] / random[2]
\* (variant: the exponential value not capped at maxDelayMs)
calculateDelayUncapped(attemptNumber, baseDelayMs, maxDelayMs, random) ==
    (baseDelayMs * 2^attemptNumber * (random[2] + 2 * random[1])) \div (2 * random[2])
calculateDelay(attemptNumber, baseDelayMs, maxDelayMs, random) ==
    LET exponentialDelay == baseDelayMs * 2^attemptNumber
        cappedDelay == IF exponentialDelay < maxDelayMs THEN exponentialDelay ELSE maxDelayMs
    IN (cappedDelay * (random[2] + 2 * random[1])) \div (2 * random[2])

\* the arguments of `onRetry(lastError, attempt + 1, delayMs)`
\* (variant: the index of the failed attempt passed on as it is)
onRetryArgumentsSameAttempt(e, a, delayMs) ==
    [error |-> e, attemptNumber |-> a, delayMs |-> delayMs]
onRetryArguments(e, a, delayMs) ==
    [error |-> e, attemptNumber |-> a + 1, delayMs |-> delayMs]

\* `if (attempt >= maxRetries) break`
\* (variant: the loop gives up one attempt earlier)
LastAttemptEarly(a, maxRetries) == a + 1 >= maxRetries
LastAttempt(a, maxRetries) == a >= maxRetries

\* a callback called in the catch block throws: nothing in the block catches it
\* (variant: the throw swallowed, the callback taken to have returned)
CallbackThrewNever(how) == FALSE
CallbackThrew(how) == how = "throws"

\* `attempt++` of the for loop
\* (variant: an attempt index skipped)
NextAttemptSkipping(a) == a + 2
NextAttempt(a) == a + 1

\* `if (!shouldRetry(lastError, attempt)) throw lastError`
\* (variant: the answer of the predicate ignored)
DeclinedNever(answer) == FALSE
Declined(answer) == answer = "false"

InitRetry ==
    /\ retryState = "idle"
    /\ retryOpts = NoRetryOptions
    /\ attempt = 0
    /\ invocations = 0
    /\ thrown = <<>>
    /\ lastError = NoValue
    /\ shouldRetryCalls = <<>>
    /\ onRetryCalls = <<>>
    /\ delays = <<>>
    /\ waited = <<>>
    /\ retrySettled = NoValue

\* retry(fn, options) up to its first suspension: attempt 0 invokes fn
CallRetry(opts) ==
    /\ retryState = "idle"
    /\ retryOpts' = opts
    /\ attempt' = 0
    /\ invocations' = invocations + 1
    /\ retryState' = "pending"
    /\ UNCHANGED <<thrown, lastError, shouldRetryCalls, onRetryCalls, delays, waited,
                   retrySettled>>
    /\ UNCHANGED nonRetryVars

\* what retry resolves with when fn() fulfils at attempt a, lastError being e
\* (variant: an earlier failure surfaced in place of the result)
ResolvedValueOrLastError(a, e) == IF e # NoValue THEN e ELSE Value("result", a)
ResolvedValue(a, e) == Value("result", a)

\* the promise of fn() fulfils: `return await fn()`
FnResolves ==
    /\ retryState = "pending"
    /\ retryState' = "resolved"
    /\ retrySettled' = ResolvedValue(attempt, lastError)
    /\ UNCHANGED <<retryOpts, attempt, invocations, thrown, lastError, shouldRetryCalls,
                   onRetryCalls, delays, waited>>
    /\ UNCHANGED nonRetryVars

\* The promise of fn() rejects with a value of the given kind: the catch block.
\* answer is what shouldRetry does when called (returns "true" or "false", or
\* "throws"), observer what onRetry does ("returns" or "throws"), random the
\* value Math.random() returns.
FnRejects(kind, answer, observer, random) ==
    LET v == Value(kind, attempt)
        e == Coerce(v)
        delayMs == calculateDelay(attempt, retryOpts.baseDelayMs, retryOpts.maxDelayMs, random)
    IN /\ retryState = "pending"
       /\ thrown' = Append(thrown, v)
       /\ lastError' = e
       /\ IF LastAttempt(attempt, retryOpts.maxRetries)
          THEN /\ retryState' = "rejected"
               /\ retrySettled' = e
               /\ UNCHANGED <<shouldRetryCalls, onRetryCalls, delays>>
          ELSE /\ shouldRetryCalls' = Append(shouldRetryCalls,
                       [error |-> e, attemptNumber |-> attempt, answer |-> answer])
               /\ IF CallbackThrew(answer)
                  THEN /\ retryState' = "rejected"
                       /\ retrySettled' = Value("thrownByShouldRetry", attempt)
                       /\ UNCHANGED <<onRetryCalls, delays>>
                  ELSE IF Declined(answer)
                  THEN /\ retryState' = "rejected"
                       /\ retrySettled' = e
                       /\ UNCHANGED <<onRetryCalls, delays>>
                  ELSE /\ delays' = Append(delays, delayMs)
                       /\ onRetryCalls' =
                            IF retryOpts.onRetry
                            THEN Append(onRetryCalls, onRetryArguments(e, attempt, delayMs))
                            ELSE onRetryCalls
                       /\ IF retryOpts.onRetry /\ CallbackThrew(observer)
                          THEN /\ retryState' = "rejected"
                               /\ retrySettled' = Value("thrownByOnRetry", attempt)
                          ELSE /\ retryState' = "sleeping"
                               /\ UNCHANGED retrySettled
       /\ UNCHANGED <<retryOpts, attempt, invocations, waited>>
       /\ UNCHANGED nonRetryVars

\* the setTimeout(resolve, delayMs) of the catch block fires: the loop goes on to
\* the next attempt and invokes fn
DelayElapses ==
    /\ retryState = "sleeping"
    /\ waited' = Append(waited, delays[Len(delays)])
    /\ attempt' = NextAttempt(attempt)
    /\ invocations' = invocations + 1
    /\ retryState' = "pending"
    /\ UNCHANGED <<retryOpts, thrown, lastError, shouldRetryCalls, onRetryCalls, delays,
                   retrySettled>>
    /\ UNCHANGED nonRetryVars

NextRetry ==
    \/ \E opts \in RetryOptions : CallRetry(opts)
    \/ FnResolves
    \/ \E kind \in ThrownKinds, answer \in {"true", "false", "throws"},
          observer \in {"returns", "throws"}, random \in MathRandom :
            FnRejects(kind, answer, observer, random)
    \/ DelayElapses

-----------------------------------------------------------------------------
(* utils.ts *)

\* the characters of the strings passed to escapeShellArg: the single quote, the
\* backslash, a character the shell expands outside quotes, a blank, a letter
Quote == "'"

Backslash == "\\"

Chars == {Quote, Backslash, "$", " ", "a"}

\* the strings of at most MaxArgLen characters, as sequences of characters
ShellArgs == UNION {[1..n -> Chars] : n \in 0..MaxArgLen}

\* arg.replace(/'/g, "'\\''"): every single quote replaced by the four
\* characters quote, backslash, quote, quote
\* (variant: the quote escaped by a backslash alone, inside the quotes)
RECURSIVE ReplaceQuotesByBackslashQuote(_)
ReplaceQuotesByBackslashQuote(arg) ==
    IF arg = <<>> THEN <<>>
    ELSE (IF Head(arg) = Quote THEN <<Backslash, Quote>> ELSE <<Head(arg)>>)
         \o ReplaceQuotesByBackslashQuote(Tail(arg))
RECURSIVE ReplaceQuotes(_)
ReplaceQuotes(arg) ==
    IF arg = <<>> THEN <<>>
    ELSE (IF Head(arg) = Quote THEN <<Quote, Backslash, Quote, Quote>> ELSE <<Head(arg)>>)
         \o ReplaceQuotes(Tail(arg))

\* escapeShellArg(arg)
escapeShellArg(arg) == <<Quote>> \o ReplaceQuotes(arg) \o <<Quote>>

\* the values a field of the arguments object can hold: no value, null, a
\* number, or a string of some length
FieldValues ==
    {[type |-> t, length |-> 0] : t \in {"undefined", "null", "number"}}
    \cup {[type |-> "string", length |-> n] : n \in 0..(MaxTaskLength + 1)}

\* request.params.arguments: not an object at all, or an object with the two fields
ToolArguments ==
    {[object |-> FALSE, task_description |-> [type |-> "undefined", length |-> 0],
      requirements |-> [type |-> "undefined", length |-> 0]]}
    \cup [object : {TRUE}, task_description : FieldValues, requirements : FieldValues]

\* (variant: the maximum length itself refused)
TaskDescriptionIssuesExclusive(value, maxTaskLength) ==
    IF value.type # "string" THEN {"task_description: not a string"}
    ELSE (IF value.length < 1 THEN {"task_description cannot be empty"} ELSE {})
         \cup (IF value.length >= maxTaskLength
               THEN {"task_description exceeds maximum length"} ELSE {})

\* the issues z.string().min(1, ...).max(maxTaskLength, ...) raises for value
TaskDescriptionIssues(value, maxTaskLength) ==
    IF value.type # "string" THEN {"task_description: not a string"}
    ELSE (IF value.length < 1 THEN {"task_description cannot be empty"} ELSE {})
         \cup (IF value.length > maxTaskLength
               THEN {"task_description exceeds maximum length"} ELSE {})

\* the issues z.string().optional() raises for value
RequirementsIssues(value) ==
    IF value.type \in {"undefined", "string"} THEN {} ELSE {"requirements: not a string"}

\* createSpawnAgentInputSchema(maxTaskLength).safeParse(arguments)
safeParse(maxTaskLength, arguments) ==
    LET issues == IF ~arguments.object THEN {"not an object"}
                  ELSE TaskDescriptionIssues(arguments.task_description, maxTaskLength)
                       \cup RequirementsIssues(arguments.requirements)
    IN [success |-> issues = {}, issues |-> issues]

NoOutput == [done |-> FALSE, value |-> <<>>]

InitUtils ==
    /\ utilInput = <<>>
    /\ utilOutput = NoOutput

\* a call escapeShellArg(utilInput)
CallEscapeShellArg ==
    /\ ~utilOutput.done
    /\ utilOutput' = [done |-> TRUE, value |-> escapeShellArg(utilInput)]
    /\ UNCHANGED utilInput
    /\ UNCHANGED nonUtilVars

\* a call createSpawnAgentInputSchema(utilInput.max).safeParse(utilInput.arguments)
CallSafeParse ==
    /\ ~utilOutput.done
    /\ utilOutput' = [done |-> TRUE, value |-> safeParse(utilInput.max, utilInput.arguments)]
    /\ UNCHANGED utilInput
    /\ UNCHANGED nonUtilVars

-----------------------------------------------------------------------------
(* errors.ts *)

\* the classes of the taxonomy with the code each constructor passes on;
\* RemoteAgentError itself takes any code
SubclassCode ==
    [SandboxCreationError |-> "SANDBOX_CREATION_ERROR",
     ClaudeInstallError   |-> "CLAUDE_INSTALL_ERROR",
     ClaudeExecutionError |-> "CLAUDE_EXECUTION_ERROR",
     ValidationError      |-> "VALIDATION_ERROR",
     TimeoutError         |-> "TIMEOUT_ERROR"]

Messages == {"", "boom", "sandbox failed"}

NoContext == [present |-> FALSE, originalName |-> "", originalStack |-> ""]

\* A thrown value. type is what the instanceof tests and String() go by; id tells
\* objects apart (0 for a value that is no object), timestamp is the reading of
\* the clock a RemoteAgentError was constructed at.
Thrown(type, name, code, message, stack, number, context, id, timestamp) ==
    [type |-> type, name |-> name, code |-> code, message |-> message, stack |-> stack,
     number |-> number, context |-> context, id |-> id, timestamp |-> timestamp]

\* the values passed to toRemoteAgentError: errors of the taxonomy, other Errors,
\* strings, numbers, undefined, null and a plain object
ThrownValues ==
    {Thrown("RemoteAgentError", "RemoteAgentError", code, m, "stack of argument", 0,
            NoContext, 1, 0) : code \in {"UNKNOWN_ERROR", "CUSTOM"}, m \in Messages}
    \cup {Thrown("RemoteAgentError", c, SubclassCode[c], m, "stack of argument", 0,
                 NoContext, 1, 0) : c \in DOMAIN SubclassCode, m \in Messages}
    \cup {Thrown("Error", n, "", m, "stack of argument", 0, NoContext, 1, 0) :
                 n \in {"Error", "TypeError"}, m \in Messages}
    \cup {Thrown("string", "", "", m, "", 0, NoContext, 0, 0) : m \in Messages}
    \cup {Thrown("number", "", "", "", "", n, NoContext, 0, 0) : n \in 0..MaxNumber}
    \cup {Thrown(t, "", "", "", "", 0, NoContext, 0, 0) : t \in {"undefined", "null", "object"}}

\* String(error) for a value that is not an Error
String(error) ==
    CASE error.type = "string" -> error.message
      [] error.type = "number" -> ToString(error.number)
      [] error.type = "undefined" -> "undefined"
      [] error.type = "null" -> "null"
      [] OTHER -> "[object Object]"

\* error instanceof RemoteAgentError
\* (variant: no value recognised, every argument wrapped)
isRemoteAgentErrorNever(error) == FALSE

isRemoteAgentError(error) == error.type = "RemoteAgentError"

\* new RemoteAgentError(message, code, context), the object numbered id, made
\* when the clock reads now
NewRemoteAgentError(message, code, context, id, now) ==
    Thrown("RemoteAgentError", "RemoteAgentError", code, message, "stack of coercion", 0,
           context, id, now)

\* toRemoteAgentError(error), called when the clock reads now; a new object
\* takes the number id
toRemoteAgentError(error, id, now) ==
    IF isRemoteAgentError(error) THEN error
    ELSE IF error.type = "Error"
    THEN NewRemoteAgentError(error.message, "UNKNOWN_ERROR",
                             [present |-> TRUE, originalName |-> error.name,
                              originalStack |-> error.stack], id, now)
    ELSE NewRemoteAgentError(String(error), "UNKNOWN_ERROR", NoContext, id, now)

\* toRemoteAgentError applied to the argument, then to what it returned
CallToRemoteAgentError ==
    /\ Len(utilOutput.value) < 2
    /\ utilOutput' =
            [done |-> TRUE,
             value |-> Append(utilOutput.value,
                              toRemoteAgentError(IF utilOutput.done
                                                 THEN utilOutput.value[1] ELSE utilInput,
                                                 Len(utilOutput.value) + 2,
                                                 Len(utilOutput.value) + 1))]
    /\ UNCHANGED utilInput
    /\ UNCHANGED nonUtilVars

-----------------------------------------------------------------------------
(* index.ts: the CallToolRequestSchema handler *)

Requests == 1..MaxRequests

\* the sandboxes Sandbox.create can hand out, one per request at most
E2BSandboxes == 1..MaxRequests

ToolNames == {"spawn_remote_agent", "list_files"}

\* CONFIG.maxTaskLength
maxTaskLength == MaxTaskLength

\* the arguments the calls are made with: not an object, or an object whose
\* task_description is missing, empty, short or too long and whose requirements
\* is missing or null
HandlerArguments ==
    {a \in ToolArguments :
        /\ a.task_description.type \in {"undefined", "string"}
        /\ a.task_description.length \in {0, 1, maxTaskLength + 1}
        /\ a.requirements.type \in {"undefined", "null"}}

NoArguments == CHOOSE a \in ToolArguments : ~a.object

\* a response of the handler; isError is FALSE where the code leaves it out
Response(text, isError) == [text |-> text, isError |-> isError]

NoResponse == Response("", FALSE)

NoRequest ==
    [state |-> "idle", name |-> "", arguments |-> NoArguments, sandbox |-> 0,
     commands |-> <<>>, response |-> NoResponse, killOutcome |-> "none",
     returned |-> NoResponse]

ServerLog(level, message, by) == [level |-> level, message |-> message, by |-> by]

\* if (!parseResult.success)
\* (variant: the result of the validation ignored)
RejectedNever(parseResult) == FALSE

Rejected(parseResult) == ~parseResult.success

\* what the handler returns once the finally block is through: the block has no
\* return of its own, so the value of the try or catch block
\* (variant: a failed kill turned into an error response)
ReturnedAfterFailedKill(response, killOutcome) ==
    IF killOutcome = "rejected"
    THEN Response("Error executing remote agent", TRUE)
    ELSE response

ReturnedAfterFinally(response, killOutcome) == response

InitHandler ==
    /\ requests = [r \in Requests |-> NoRequest]
    /\ created = 0
    /\ kills = [s \in E2BSandboxes |-> <<>>]
    /\ serverLogs = {}

\* the finally block reached by request r with response computed: kill called
\* on the sandbox of the request if it has one, the handler returning at once
\* otherwise
Finally(r, sandbox, response, moreLogs) ==
    /\ serverLogs' = serverLogs \cup moreLogs
    /\ IF sandbox # 0
       THEN /\ requests' = [requests EXCEPT ![r].state = "killing",
                                            ![r].response = response]
            /\ kills' = [kills EXCEPT ![sandbox] = Append(@, r)]
       ELSE /\ requests' = [requests EXCEPT ![r].state = "returned",
                                            ![r].response = response,
                                            ![r].returned = response]
            /\ UNCHANGED kills

\* the catch block of request r, then the finally block
Catch(r, sandbox) ==
    Finally(r, sandbox, Response("Error executing remote agent", TRUE),
            {ServerLog("error", "Remote agent execution failed", r)})

\* a tools/call request arrives and the handler runs up to its first await
\* (requests are numbered in the order they arrive)
CallTool(r, name, arguments) ==
    /\ requests[r].state = "idle"
    /\ \A q \in 1..(r - 1) : requests[q].state # "idle"
    /\ IF name # "spawn_remote_agent"
       THEN /\ requests' = [requests EXCEPT ![r].state = "thrown",
                                            ![r].name = name,
                                            ![r].arguments = arguments]
            /\ UNCHANGED serverLogs
       ELSE IF Rejected(safeParse(maxTaskLength, arguments))
       THEN /\ requests' = [requests EXCEPT ![r].state = "returned",
                                            ![r].name = name,
                                            ![r].arguments = arguments,
                                            ![r].response = Response("Invalid input", TRUE),
                                            ![r].returned = Response("Invalid input", TRUE)]
            /\ UNCHANGED serverLogs
       ELSE /\ requests' = [requests EXCEPT ![r].state = "creating",
                                            ![r].name = name,
                                            ![r].arguments = arguments]
            /\ serverLogs' = serverLogs \cup {ServerLog("info", "Starting E2B sandbox", r)}
    /\ UNCHANGED <<created, kills>>
    /\ UNCHANGED nonHandlerVars

\* Sandbox.create settles for request r
CreateSettles(r, outcome) ==
    /\ requests[r].state = "creating"
    /\ IF outcome = "resolved"
       THEN /\ created' = created + 1
            /\ requests' = [requests EXCEPT ![r].state = "installing",
                                            ![r].sandbox = created + 1,
                                            ![r].commands = Append(@, "npm install")]
            /\ serverLogs' = serverLogs \cup {ServerLog("info", "Installing Claude Code", r)}
            /\ UNCHANGED kills
       ELSE /\ Catch(r, 0)
            /\ UNCHANGED created
    /\ UNCHANGED nonHandlerVars

\* the installation command settles for request r
InstallSettles(r, outcome) ==
    /\ requests[r].state = "installing"
    /\ IF outcome = "exit 0"
       THEN /\ requests' = [requests EXCEPT ![r].state = "executing",
                                            ![r].commands = Append(@, "claude")]
            /\ serverLogs' = serverLogs \cup {ServerLog("info", "Claude Code installed", r),
                                              ServerLog("info", "Running Claude Code", r)}
            /\ UNCHANGED kills
       ELSE Catch(r, requests[r].sandbox)
    /\ UNCHANGED created
    /\ UNCHANGED nonHandlerVars

\* the claude command settles for request r
ExecuteSettles(r, outcome) ==
    /\ requests[r].state = "executing"
    /\ IF outcome = "rejected"
       THEN Catch(r, requests[r].sandbox)
       ELSE Finally(r, requests[r].sandbox, Response("Remote Agent Result", FALSE),
                    {ServerLog("info", "Claude execution complete", r)})
    /\ UNCHANGED created
    /\ UNCHANGED nonHandlerVars

\* sandbox.kill() settles for request r and the handler returns
HandlerKillSettles(r, outcome) ==
    /\ requests[r].state = "killing"
    /\ requests' = [requests EXCEPT
            ![r].state = "returned",
            ![r].killOutcome = outcome,
            ![r].returned = ReturnedAfterFinally(requests[r].response, outcome)]
    /\ serverLogs' = serverLogs \cup
            {IF outcome = "resolved"
             THEN ServerLog("info", "Sandbox terminated", r)
             ELSE ServerLog("warn", "Failed to kill sandbox", r)}
    /\ UNCHANGED <<created, kills>>
    /\ UNCHANGED nonHandlerVars

NextHandler ==
    \/ \E r \in Requests, name \in ToolNames, arguments \in HandlerArguments :
            CallTool(r, name, arguments)
    \/ \E r \in Requests, outcome \in {"resolved", "rejected"} : CreateSettles(r, outcome)
    \/ \E r \in Requests, outcome \in {"exit 0", "exit 1", "rejected"} : InstallSettles(r, outcome)
    \/ \E r \in Requests, outcome \in {"exit 0", "exit 1", "rejected"} : ExecuteSettles(r, outcome)
    \/ \E r \in Requests, outcome \in {"resolved", "rejected"} : HandlerKillSettles(r, outcome)

-----------------------------------------------------------------------------
(* Specifications *)

Init == InitMetrics /\ InitShutdown /\ InitRetry /\ InitUtils /\ InitHandler

\* for the components that do not involve the signal handlers: the handlers
\* installed with one set of options
InitMetricsOnly ==
    /\ Init
    /\ handlerOpts.forceTimeoutMs = 1
    /\ handlerOpts.verbose = defaultVerbose

SpecMetrics == InitMetricsOnly /\ [][NextMetrics]_vars

\* the shutdown orchestrator alone
SpecShutdown == Init /\ [][NextShutdown]_vars

\* samples loaded into a histogram
StatsSamples == {1, 2, 7}

\* the samples 1..100, loaded in descending order
OneToHundred == [i \in 1..100 |-> 101 - i]

\* histogram contents the statistics are computed on
StatsInputs == UNION {[1..n -> StatsSamples] : n \in 0..MaxLen} \cup {OneToHundred}

\* a store whose histogram execution_time holds one of the given contents
InitLoaded(inputs) ==
    /\ InitShutdown
    /\ handlerOpts.forceTimeoutMs = 1
    /\ handlerOpts.verbose = defaultVerbose
    /\ InitRetry
    /\ InitUtils
    /\ InitHandler
    /\ counters = [n \in CounterName |-> 0]
    /\ \E values \in inputs :
          histograms = [n \in HistogramName |-> IF n = "execution_time" THEN values ELSE <<>>]
    /\ submittedValues = histograms
    /\ lockQueue = <<>>
    /\ submittedOps = 0
    /\ submittedTotal = [n \in CounterName |-> 0]
    /\ lastRead = NoRead
    /\ measure = [c \in MeasureCalls |-> NoMeasure]
    /\ settled = NoneSettled

InitStats == InitLoaded(StatsInputs)

NextStats == SubmitGetMetrics \/ RunLocked

\* snapshots of a loaded store: getMetrics alone
SpecStats == InitStats /\ [][NextStats]_vars

NextLock ==
    \/ SubmitIncrement("tasks_spawned", 1)
    \/ \E name \in {"execution_time", "no_such_histogram"} : SubmitRecord(name, 2)
    \/ SubmitGetHistogramValues("execution_time")
    \/ \E c \in MeasureCalls : CallMeasureTime(c, "execution_time")
    \/ \E c \in MeasureCalls, outcome \in {"resolved", "rejected"}, duration \in Samples :
            MeasuredFnSettles(c, outcome, duration)
    \/ RunLocked

\* Calls through the lock, some with a body that throws, and overlapping
\* measureTime calls. A call suspended at `await currentLock` is resumed by the
\* event loop once the promise it awaits is resolved.
SpecLock == InitMetricsOnly /\ [][NextLock]_vars /\ WF_vars(RunLocked)

NextCopies ==
    \/ SubmitGetHistogramValues("execution_time")
    \/ SubmitGetMetrics
    \/ SubmitRecord("execution_time", 1)
    \/ ChangeReturned
    \/ RunLocked

\* reads of a loaded store whose caller changes the arrays it is given
InitCopies == InitLoaded(StatsInputs \ {OneToHundred})

SpecCopies == InitCopies /\ [][NextCopies]_vars

\* everything but utils.ts in its initial state, the signal handlers installed
\* with one set of options
InitOthers ==
    /\ InitMetrics
    /\ InitShutdown
    /\ handlerOpts.forceTimeoutMs = 1
    /\ handlerOpts.verbose = defaultVerbose
    /\ InitRetry
    /\ InitHandler

\* escapeShellArg applied to a string
InitEscape ==
    /\ InitOthers
    /\ utilInput \in ShellArgs
    /\ utilOutput = NoOutput

SpecEscape == InitEscape /\ [][CallEscapeShellArg]_vars

\* a schema built for some maxTaskLength applied to some arguments
InitSchema ==
    /\ InitOthers
    /\ utilInput \in [max : 0..MaxTaskLength, arguments : ToolArguments]
    /\ utilOutput = NoOutput

SpecSchema == InitSchema /\ [][CallSafeParse]_vars

\* toRemoteAgentError applied to a thrown value
InitCoerce ==
    /\ InitOthers
    /\ utilInput \in ThrownValues
    /\ utilOutput = NoOutput

SpecCoerce == InitCoerce /\ [][CallToRemoteAgentError]_vars

\* the tool handler serving requests
SpecHandler == InitMetricsOnly /\ [][NextHandler]_vars

\* one retry call alone
SpecRetry == InitMetricsOnly /\ [][NextRetry]_vars

Next ==
    \/ NextMetrics
    \/ ChangeReturned
    \/ NextShutdown
    \/ NextRetry
    \/ CallEscapeShellArg
    \/ CallSafeParse
    \/ CallToRemoteAgentError
    \/ NextHandler

Spec == Init /\ [][Next]_vars

\* The event loop keeps running: time passes and a timer whose delay has elapsed
\* is run. Nothing obliges a kill() promise to settle.
FairShutdown ==
    /\ SpecShutdown
    /\ WF_vars(Tick)
    /\ WF_vars(\E id \in Ids : GracefulTimerFires(id))
    /\ WF_vars(OverallTimerFires)

-----------------------------------------------------------------------------
(* Properties *)

\* C1: no lost updates. The value a getCounter call returns is the sum of the
\* amounts of all incrementCounter calls on that counter submitted before it
\* (since the last resetMetrics submitted before it), however many of them were
\* still waiting for the lock when the read was submitted.
NoLostUpdates == lastRead.value = lastRead.expect

\* a read submitted while two increments of its counter waited for the lock
NoLostUpdatesWitness ==
    /\ lastRead.name = "tasks_spawned"
    /\ lastRead.pending = 2
    /\ lastRead.value = 2

\* C2: at most one shutdown execution is ever started, and every caller of
\* shutdownAll receives the promise of that first execution.
AtMostOneExecution ==
    /\ executions <= 1
    /\ observed \subseteq {1}
    /\ (executions = 0 <=> shutdownPromise = "null")

\* three callers await the one execution
AtMostOneExecutionWitness ==
    /\ executions = 1
    /\ Len(waiters) = 3
    /\ shutdownPromise = "pending"

\* C3: kill() is invoked at most once on every registered sandbox.
KillAtMostOnce == \A s \in Sandboxes : killCount[s] <= 1

\* a sandbox was killed, is still registered, and shutdownAll was called again
KillAtMostOnceWitness ==
    /\ \E e \in sandboxRegistry : killCount[e.sandbox] = 1
    /\ signalCount = 1
    /\ calls = 2

\* C4 (as claimed): an entry leaves the registry on the shutdown path (the delete
\* of a callback, or the final clear) only after kill() was invoked on its sandbox.
EveryTrackedTornDown ==
    [][\A e \in sandboxRegistry :
          (e \notin sandboxRegistry' /\ (task' # task \/ shutdownPromise' # shutdownPromise))
          => killCount[e.sandbox] >= 1]_vars

\* C5 (as claimed): whenever the shutdown execution has completed, the registry
\* is empty.
RegistryEmptyAfterComplete == shutdownPromise = "resolved" => sandboxRegistry = {}


\* the drained ids whose kill() promise has not settled
Stuck == {i \in sandboxIds : killState[taskSandbox[i]] = "pending"}

\* a step of the event loop that needs no kill() promise to settle
TimerStep == Tick \/ OverallTimerFires \/ \E id \in Ids : GracefulTimerFires(id)

\* C6: a sandbox whose kill() never settles does not block shutdown. While the
\* execution is pending, no more than gracefulTimeoutMs + forceTimeoutMs have
\* elapsed and the passing of time alone carries it on (the overall timer is
\* armed, and time can pass or a timer can run); it finishes no later than
\* gracefulTimeoutMs + forceTimeoutMs after it began, and once it has finished the
\* entry of every stuck sandbox is gone from the registry.
StuckDoesNotBlock ==
    /\ shutdownPromise = "pending" /\ ~Exited =>
          /\ elapsed <= drainOpts.gracefulTimeoutMs + drainOpts.forceTimeoutMs
          /\ overallTimer
          /\ ENABLED TimerStep
    /\ shutdownPromise = "resolved" =>
          /\ finishedAt <= drainOpts.gracefulTimeoutMs + drainOpts.forceTimeoutMs
          /\ \A i \in Stuck :
               [id |-> i, sandbox |-> taskSandbox[i]] \notin sandboxRegistry

\* under the fairness of the event loop a pending execution finishes, unless the
\* process is ended first (by a second signal)
ShutdownTerminates == shutdownPromise = "pending" ~> (shutdownPromise = "resolved" \/ Exited)

\* the execution has finished although a kill() is still pending
StuckDoesNotBlockWitness ==
    /\ shutdownPromise = "resolved"
    /\ \E i \in Stuck : task[i] = "timeout"
    /\ ~Exited

\* C7: in a drain the entry of every drained sandbox is removed whatever the
\* outcome of its race, kill() has been invoked on every drained sandbox whatever
\* happened to the others, and nothing of the drained entries is left at the end.
DrainRemovesEveryEntry ==
    /\ \A i \in sandboxIds :
         /\ killCount[taskSandbox[i]] >= 1
         /\ task[i] \in {"terminated", "failed", "timeout"}
              => [id |-> i, sandbox |-> taskSandbox[i]] \notin sandboxRegistry
    /\ shutdownPromise = "resolved" =>
         \A i \in sandboxIds : [id |-> i, sandbox |-> taskSandbox[i]] \notin sandboxRegistry

\* one sandbox failed, the other one is still being killed
DrainRemovesEveryEntryWitness ==
    /\ shutdownPromise = "pending"
    /\ task["a"] = "failed"
    /\ task["b"] = "racing"
    /\ killCount[taskSandbox["b"]] = 1
    /\ ~RegistryHas(sandboxRegistry, "a")

FailureWarning(i) ==
    [level |-> "warn", message |-> "Failed to gracefully terminate sandbox", about |-> i]

ShutdownState ==
    CASE shutdownPromise = "null" -> "Idle"
      [] shutdownPromise = "pending" -> "InProgress"
      [] OTHER -> "Complete"

\* C9: the shutdown state leaves Idle only by a shutdownAll call, never returns to
\* Idle, never leaves Complete, and isShutdownInProgress() is false exactly in
\* Idle: once true it stays true.
ShutdownStateMonotone ==
    /\ [](isShutdownInProgress <=> ShutdownState # "Idle")
    /\ [][/\ ShutdownState = "Idle" /\ ShutdownState' # "Idle"
               => calls' = calls + 1 \/ signalCount' = signalCount + 1
          /\ ShutdownState = "InProgress" => ShutdownState' \in {"InProgress", "Complete"}
          /\ ShutdownState = "Complete" => ShutdownState' = "Complete"
          /\ isShutdownInProgress => isShutdownInProgress']_vars

\* a drain with sandboxes has completed and a sandbox was registered afterwards
ShutdownStateMonotoneWitness ==
    /\ ShutdownState = "Complete"
    /\ sandboxIds # {}
    /\ isShutdownInProgress
    /\ sandboxRegistry # {}

\* C10: the first signal calls shutdownAll; its handler exits the process only
\* once the shutdown promise has settled, with code 0 as the promise resolved,
\* and while only one signal has arrived the process does not exit before that.
FirstSignalExitsAfterDrain ==
    /\ signalCount >= 1 => shutdownPromise # "null"
    /\ exitBy = "signal" =>
         /\ shutdownPromise = "resolved"
         /\ exitCode = 0
    /\ Exited /\ signalCount <= 1 => shutdownPromise = "resolved"

\* the first signal's handler has exited with code 0 after a drain in which a
\* teardown failed
FirstSignalExitsAfterDrainWitness ==
    /\ exitBy = "signal"
    /\ exitCode = 0
    /\ \E i \in sandboxIds : task[i] = "failed"


\* C11: a second termination signal, SIGINT and SIGTERM counted together, that
\* arrives while the process still runs (the drain of the first signal has not
\* completed) ends the process in the very step it is delivered, with exit code 1:
\* no state exists in which two signals were counted and the process still runs
\* or has exited otherwise.
SecondSignalForcesExit ==
    signalCount >= 2 => /\ signalCount = 2
                        /\ exitBy = "forced"
                        /\ exitCode = 1

\* a second signal has ended the process while a kill() was still pending and the
\* drain of the first one was still waiting for it
SecondSignalForcesExitWitness ==
    /\ exitBy = "forced"
    /\ exitCode = 1
    /\ signalCount = 2
    /\ shutdownPromise = "pending"
    /\ waiters # <<>> /\ Head(waiters) = "signal"
    /\ \E i \in sandboxIds : task[i] = "racing" /\ killState[taskSandbox[i]] = "pending"

\* an uncaughtException or unhandledRejection handler has run
FaultDelivered ==
    \E l \in logs : l.level = "error" /\ l.message \in {"uncaughtException", "unhandledRejection"}

\* C12: once an uncaught exception or an unhandled rejection has been delivered,
\* the process exits with code 1 only, whatever signals arrive before or after it
\* and whether or not a signal-initiated drain is already in flight.
FaultExitsWithOne == (FaultDelivered /\ Exited) => exitCode = 1

\* the retry call has rejected after fn failed at every attempt, shouldRetry
\* accepted every failure it was asked about and onRetry did not throw
Exhausted ==
    /\ retryState = "rejected"
    /\ Len(thrown) = invocations
    /\ \A i \in 1..Len(shouldRetryCalls) : shouldRetryCalls[i].answer = "true"
    /\ retrySettled.kind # "thrownByOnRetry"

DeclineShortCircuits ==
    \A i \in 1..Len(shouldRetryCalls) :
        shouldRetryCalls[i].answer = "false" =>
            LET a == shouldRetryCalls[i].attemptNumber
            IN /\ i = Len(shouldRetryCalls)
               /\ a = i - 1
               /\ a < retryOpts.maxRetries
               /\ retryState = "rejected"
               /\ retrySettled = shouldRetryCalls[i].error
               /\ retrySettled.from = a
               /\ invocations = a + 1
               /\ Len(thrown) = a + 1
               /\ Len(delays) = a
               /\ Len(waited) = a
               /\ Len(onRetryCalls) = (IF retryOpts.onRetry THEN a ELSE 0)
               /\ \A j \in 1..Len(onRetryCalls) : onRetryCalls[j].attemptNumber <= a
               /\ (a = 0 => invocations = 1 /\ waited = <<>>)

\* the predicate accepted the failure of attempt 0 and declined that of attempt 1,
\* with an observer provided
DeclineShortCircuitsWitness ==
    /\ Len(shouldRetryCalls) = 2
    /\ shouldRetryCalls[1].answer = "true"
    /\ shouldRetryCalls[2].answer = "false"
    /\ retryOpts.onRetry
    /\ retryOpts.maxRetries = 2
    /\ retryState = "rejected"

\* the errors a retry call has shown to its caller: those passed to shouldRetry
\* and to onRetry, and the failure of fn it rejected with
SeenErrors ==
    {shouldRetryCalls[i].error : i \in 1..Len(shouldRetryCalls)}
    \cup {onRetryCalls[i].error : i \in 1..Len(onRetryCalls)}
    \cup (IF retryState = "rejected"
             /\ retrySettled.kind \notin {"thrownByShouldRetry", "thrownByOnRetry"}
          THEN {retrySettled} ELSE {})

\* C15 as stated: every error the predicate, the observer or the caller of retry
\* sees has the shape of the taxonomy's base error, RemoteAgentError.
SeenErrorsAreTaxonomyErrors == \A e \in SeenErrors : e.kind = "RemoteAgentError"

\* C15, amended: every error the predicate, the observer or the caller of retry
\* sees is an Error instance: the thrown value itself when it already is an Error
\* (of the taxonomy or not), and otherwise a plain Error made from it, which is
\* not a RemoteAgentError.
SeenErrorsAreErrors ==
    /\ \A e \in SeenErrors :
          /\ e.kind \in {"RemoteAgentError", "Error"}
          /\ e.from + 1 \in 1..Len(thrown)
          /\ LET v == thrown[e.from + 1]
             IN /\ v.kind \in {"RemoteAgentError", "Error"} => e = v
                /\ v.kind = "string" => e.kind = "Error" /\ e.wraps
    /\ lastError # NoValue => lastError.kind \in {"RemoteAgentError", "Error"}

\* fn rejected with a value that is not an Error; the predicate and the observer
\* were given an Error made from it, and after a later failure of the same sort
\* the call rejected with one
SeenErrorsAreErrorsWitness ==
    /\ retryState = "rejected"
    /\ Len(onRetryCalls) >= 1
    /\ thrown[1].kind = "string"
    /\ onRetryCalls[1].error.wraps
    /\ shouldRetryCalls[1].error.wraps
    /\ thrown[Len(thrown)].kind = "string"
    /\ retrySettled.wraps

\* C16: no delay that retry computes, and then waits between two attempts,
\* exceeds maxDelayMs, whatever the attempt index and the jitter draw.
DelayWithinMaxDelay ==
    /\ \A i \in 1..Len(delays) : delays[i] <= retryOpts.maxDelayMs
    /\ \A i \in 1..Len(waited) : waited[i] <= retryOpts.maxDelayMs

\* C18: every counter is non-negative in every reachable state, whatever the
\* amounts passed to incrementCounter.
CountersNonNegative == \A n \in CounterName : counters[n] >= 0

\* counters and histograms once the calls of q have run on c and h in the order
\* of q
RECURSIVE AfterQueue(_, _, _)
AfterQueue(q, c, h) ==
    IF q = <<>> THEN [counters |-> c, histograms |-> h]
    ELSE LET o == Head(q)
         IN CASE o.op = "incrementCounter" ->
                   AfterQueue(Tail(q), [c EXCEPT ![o.name] = @ + o.amount], h)
              [] o.op = "recordHistogram" ->
                   AfterQueue(Tail(q), c, [h EXCEPT ![o.name] = Append(@, o.amount)])
              [] o.op = "resetMetrics" ->
                   AfterQueue(Tail(q), [n \in CounterName |-> 0], [n \in HistogramName |-> <<>>])
              [] OTHER -> AfterQueue(Tail(q), c, h)

\* C17: metrics operations take effect in the order they were submitted, and a
\* read (getCounter, getHistogramValues, getMetrics) returns the effect of every
\* write submitted before it and of no write submitted after it. The writes that
\* have run, followed by the waiting ones in submission order, always amount to
\* what was submitted (histogram samples in the order of submission), and each
\* read, waiting or done, returns the store as the writes submitted before it
\* leave it.
ReadsReflectEarlierWrites ==
    /\ AfterQueue(lockQueue, counters, histograms)
         = [counters |-> submittedTotal, histograms |-> submittedValues]
    /\ lastRead.op \in {"getCounter", "getHistogramValues", "getMetrics"}
         => lastRead.value = lastRead.expect
    /\ \A i \in 1..Len(lockQueue) :
          LET before == AfterQueue(SubSeq(lockQueue, 1, i - 1), counters, histograms)
              o == lockQueue[i]
          IN /\ o.op = "getCounter" => before.counters[o.name] = o.expect
             /\ o.op = "getHistogramValues" => before.histograms[o.name] = o.expect
             /\ o.op = "getMetrics" =>
                   o.expect.counters = before.counters
                   /\ \A n \in HistogramName :
                         o.expect.histograms[n].count = Len(before.histograms[n])

\* a snapshot was read that holds a sample and an increment submitted before it,
\* while a sample submitted after it still waits
ReadsReflectEarlierWritesWitness ==
    /\ lastRead.op = "getMetrics"
    /\ \E n \in HistogramName :
          /\ lastRead.value.histograms[n].count = 1
          /\ \E i \in 1..Len(lockQueue) :
                lockQueue[i].op = "recordHistogram" /\ lockQueue[i].name = n
          /\ Len(submittedValues[n]) = 2

\* C19: measureTime(name, fn) appends exactly one sample to histogram name whether
\* fn resolves or rejects, none before fn has settled, and settles as fn did: it
\* resolves with the result of fn or rejects with the error of fn, never with an
\* error of its own.
MeasureTimeRecordsOnce ==
    \A c \in MeasureCalls :
        /\ measure[c].state \in {"idle", "running", "recording"} =>
              measure[c].appended = 0 /\ measure[c].settledWith = "none"
        /\ measure[c].state \in {"resolved", "rejected"} =>
              /\ measure[c].appended = 1
              /\ measure[c].state = measure[c].fnOutcome
              /\ measure[c].fnOutcome = "resolved" => measure[c].settledWith = "result of fn"
              /\ measure[c].fnOutcome = "rejected" => measure[c].settledWith = "error of fn"

\* a measureTime call whose fn rejected has rejected with the error of fn after
\* its sample went into the histogram
MeasureTimeRecordsOnceWitness ==
    /\ measure[1].state = "rejected"
    /\ measure[1].fnOutcome = "rejected"
    /\ measure[1].appended = 1
    /\ Len(histograms[measure[1].name]) >= 1

\* the samples of values
Range(values) == {values[i] : i \in 1..Len(values)}

\* Reference percentile of a non-empty values: with k the least rank in
\* 1..Len(values) that covers p percent of the samples, the sample x that has
\* fewer than k samples below it and at least k samples not above it.
RankValue(values, p) ==
    LET n == Len(values)
        k == CHOOSE r \in 1..n : 100 * r >= p * n /\ \A q \in 1..(r - 1) : 100 * q < p * n
    IN CHOOSE x \in Range(values) :
           /\ Cardinality({i \in 1..n : values[i] < x}) < k
           /\ Cardinality({i \in 1..n : values[i] <= x}) >= k

\* stats is what the reference algorithm gives for values
MatchesReference(stats, values) ==
    IF values = <<>>
    THEN /\ stats.count = 0 /\ stats.min = 0 /\ stats.max = 0
         /\ stats.mean[1] = 0
         /\ stats.median = 0 /\ stats.p95 = 0 /\ stats.p99 = 0
    ELSE /\ stats.count = Len(values)
         /\ stats.min \in Range(values) /\ \A x \in Range(values) : stats.min <= x
         /\ stats.max \in Range(values) /\ \A x \in Range(values) : stats.max >= x
         /\ stats.mean[2] > 0 /\ stats.mean[1] * Len(values) = Sum(values) * stats.mean[2]
         /\ stats.median = RankValue(values, 50)
         /\ stats.p95 = RankValue(values, 95)
         /\ stats.p99 = RankValue(values, 99)

\* C20: the statistics of a snapshot are those of the reference algorithm for
\* every histogram content: count, min, max and mean direct, median, p95 and p99
\* the sample at index ceil(p / 100 * n) - 1 of the ascending samples; the samples
\* 1..100 give median 50, p95 95 and p99 99, and a histogram without samples
\* gives zero for all seven.
SnapshotMatchesReference ==
    lastRead.op = "getMetrics" =>
        \A n \in HistogramName :
            LET stats == lastRead.value.histograms[n]
            IN /\ MatchesReference(stats, histograms[n])
               /\ Range(histograms[n]) = 1..100 /\ Len(histograms[n]) = 100 =>
                     stats.median = 50 /\ stats.p95 = 95 /\ stats.p99 = 99

\* a snapshot was read of a store with the samples 1..100 in one histogram and no
\* sample in another
SnapshotMatchesReferenceWitness ==
    /\ lastRead.op = "getMetrics"
    /\ Len(histograms["execution_time"]) = 100
    /\ lastRead.value.histograms["execution_time"].count = 100
    /\ lastRead.value.histograms["execution_time"].p95 = 95
    /\ histograms["install_time"] = <<>>
    /\ lastRead.value.histograms["install_time"].count = 0

\* the ids that have an entry in the registry
RegisteredIds == {e.id : e \in sandboxRegistry}

\* C21: the registry holds at most one entry per id in every reachable state and
\* getActiveSandboxCount() is the number of registered ids; registerSandbox(id, ...)
\* leaves exactly one entry for id, the new one, and the entries of the other ids
\* as they were; unregisterSandbox(id) returns true exactly when an entry for id
\* was present, removes that entry and no other, and leaves a registry without
\* an entry for id as it was.
RegistryOneEntryPerId ==
    /\ [](/\ \A e1, e2 \in sandboxRegistry : e1.id = e2.id => e1 = e2
          /\ getActiveSandboxCount = Cardinality(RegisteredIds)
          /\ \A id \in Ids : unregisterSandboxReturns(id) <=> id \in RegisteredIds)
    /\ [][\A id \in Ids :
            /\ registerSandbox(id) =>
                  /\ {e \in sandboxRegistry' : e.id = id} = {[id |-> id, sandbox |-> nextSandbox']}
                  /\ {e \in sandboxRegistry' : e.id # id} = {e \in sandboxRegistry : e.id # id}
            /\ unregisterSandbox(id) =>
                  /\ unregisterSandboxReturns(id) <=>
                        Cardinality(sandboxRegistry') = Cardinality(sandboxRegistry) - 1
                  /\ ~unregisterSandboxReturns(id) => sandboxRegistry' = sandboxRegistry
                  /\ sandboxRegistry' = {e \in sandboxRegistry : e.id # id}]_vars

\* an id was registered a second time, with another sandbox, and the registry
\* holds the second entry alone
RegistryOneEntryPerIdWitness ==
    /\ nextSandbox = 2
    /\ \E id \in Ids : sandboxRegistry = {[id |-> id, sandbox |-> 2]}
    /\ shutdownPromise = "null"
    /\ killCount = [s \in Sandboxes |-> 0]

\* C26: failed teardowns are not fatal. The promise of shutdownAll is never
\* rejected, whatever mix of resolved, rejected and timed-out kill() calls the
\* drain has seen, and a first-signal shutdown whose drain has completed exits
\* with code 0, also when no sandbox was terminated successfully.
TeardownFailuresNotFatal ==
    /\ shutdownPromise \in {"null", "pending", "resolved"}
    /\ (exitBy = "signal" /\ \A i \in sandboxIds : task[i] # "terminated") => exitCode = 0

\* the first signal's handler has exited with code 0 after a drain of two
\* sandboxes of which one kill() rejected and the other timed out
TeardownFailuresNotFatalWitness ==
    /\ exitBy = "signal"
    /\ exitCode = 0
    /\ Cardinality(sandboxIds) = 2
    /\ \E i \in sandboxIds : task[i] = "failed"
    /\ \E i \in sandboxIds : task[i] = "timeout"

\* the error-level record of the overall timeout is in the log
TimeoutLogged == \E l \in logs : l.level = "error" /\ l.message = "Shutdown timeout"

\* C30: the drain waits until every per-sandbox outcome has settled, a failure
\* of one not ending the wait for the others, but no longer than
\* gracefulTimeoutMs + forceTimeoutMs. When it completes with an outcome still
\* open, it does so at that ceiling, the error-level timeout record is in the log
\* (whatever the verbose option) and no entry it was draining is left in the
\* registry.
DrainWaitsUnderCeiling ==
    LET ceiling == drainOpts.gracefulTimeoutMs + drainOpts.forceTimeoutMs
        open == {i \in sandboxIds : task[i] = "racing"}
    IN /\ shutdownPromise = "pending" => open # {} /\ elapsed <= ceiling
       /\ shutdownPromise = "resolved" =>
             /\ open # {} => TimeoutLogged
             /\ TimeoutLogged => finishedAt = ceiling
             /\ ~TimeoutLogged => finishedAt <= ceiling
             /\ \A e \in sandboxRegistry :
                   ~(e.id \in sandboxIds /\ e.sandbox = taskSandbox[e.id])

\* the overall timer ended a drain in which one kill() had rejected and another
\* was still pending; the handlers were installed without the verbose option
DrainWaitsUnderCeilingWitness ==
    /\ shutdownPromise = "resolved"
    /\ TimeoutLogged
    /\ ~drainOpts.verbose
    /\ \E i \in sandboxIds : task[i] = "failed"
    /\ \E i \in sandboxIds : task[i] = "racing" /\ killState[taskSandbox[i]] = "pending"
    /\ sandboxRegistry = {}

\* min(baseDelayMs * 2^a, maxDelayMs) for the options of the retry call
CappedBackoff(a) ==
    LET exponential == retryOpts.baseDelayMs * 2^a
    IN IF exponential <= retryOpts.maxDelayMs THEN exponential ELSE retryOpts.maxDelayMs

\* C27 as stated: the delay d computed for the retried failure of attempt a, which
\* is the delay then waited before attempt a + 1, lies in the jitter band of
\* c = min(baseDelayMs * 2^a, maxDelayMs): floor(0.5 * c) <= d < 1.5 * c; and c
\* never exceeds maxDelayMs and never decreases from one attempt to the next.
DelayInJitterBand ==
    /\ \A i \in 1..Len(delays) :
          LET c == CappedBackoff(i - 1)
          IN /\ c \div 2 <= delays[i]
             /\ 2 * delays[i] < 3 * c
             /\ c <= retryOpts.maxDelayMs
             /\ i > 1 => CappedBackoff(i - 2) <= c
    /\ Len(waited) <= Len(delays)
    /\ \A i \in 1..Len(waited) : waited[i] = delays[i]

\* C27, amended: as above with the upper bound strict only for c > 0; for c = 0
\* (baseDelayMs = 0) the delay is d = 0 = 1.5 * c.
DelayInJitterBandOrZero ==
    /\ \A i \in 1..Len(delays) :
          LET c == CappedBackoff(i - 1)
          IN /\ c \div 2 <= delays[i]
             /\ c > 0 => 2 * delays[i] < 3 * c
             /\ c = 0 => delays[i] = 0
             /\ c <= retryOpts.maxDelayMs
             /\ i > 1 => CappedBackoff(i - 2) <= c
    /\ Len(waited) <= Len(delays)
    /\ \A i \in 1..Len(waited) : waited[i] = delays[i]

\* two delays were waited, the second one computed from a capped value and
\* different from the first
DelayInJitterBandOrZeroWitness ==
    /\ Len(waited) = 2
    /\ retryOpts.baseDelayMs * 2 > retryOpts.maxDelayMs
    /\ waited[1] # waited[2]
    /\ waited[2] < retryOpts.maxDelayMs

\* the retry call has settled
RetrySettled == retryState \in {"resolved", "rejected"}

\* C28 as stated, for a call with an observer: once the call has settled, the
\* number of onRetry calls is the number of invocations of fn minus one.
ObserverCallsOneLessThanInvocations ==
    (RetrySettled /\ retryOpts.onRetry) => Len(onRetryCalls) = invocations - 1

\* C28, amended: shouldRetry is asked about the failures of the attempts
\* 0, 1, ... in turn and never about that of attempt maxRetries; with an observer
\* provided, each failure the predicate accepted has exactly one onRetry call,
\* with the error the predicate was given, the attempt index plus one and the
\* delay computed for it, which is the delay waited afterwards unless onRetry
\* throws; no other onRetry call exists; and once the call has settled without
\* a throw of onRetry, the onRetry calls are one fewer than the invocations of fn.
ObserverCalledPerAcceptedFailure ==
    /\ \A i \in 1..Len(shouldRetryCalls) :
          /\ shouldRetryCalls[i].attemptNumber = i - 1
          /\ i - 1 < retryOpts.maxRetries
          /\ shouldRetryCalls[i].error.from = i - 1
          /\ i < Len(shouldRetryCalls) => shouldRetryCalls[i].answer = "true"
    /\ Len(delays) = Cardinality({i \in 1..Len(shouldRetryCalls) :
                                     shouldRetryCalls[i].answer = "true"})
    /\ ~retryOpts.onRetry => onRetryCalls = <<>>
    /\ retryOpts.onRetry =>
          /\ Len(onRetryCalls) = Len(delays)
          /\ \A i \in 1..Len(onRetryCalls) :
                /\ onRetryCalls[i].error = shouldRetryCalls[i].error
                /\ onRetryCalls[i].attemptNumber = i
                /\ onRetryCalls[i].attemptNumber <= retryOpts.maxRetries
                /\ onRetryCalls[i].delayMs = delays[i]
                /\ i <= Len(waited) => waited[i] = onRetryCalls[i].delayMs
          /\ Len(waited) <= Len(onRetryCalls)
          /\ Len(waited) < Len(onRetryCalls) =>
                \/ retryState = "sleeping"
                \/ retryState = "rejected" /\ retrySettled.kind = "thrownByOnRetry"
          /\ (RetrySettled /\ retrySettled.kind # "thrownByOnRetry") =>
                Len(onRetryCalls) = invocations - 1

\* a call with an observer has rejected at the last attempt after two retried
\* failures, each reported to onRetry
ObserverCalledPerAcceptedFailureWitness ==
    /\ retryOpts.onRetry
    /\ retryOpts.maxRetries = 2
    /\ retryState = "rejected"
    /\ invocations = 3
    /\ Len(onRetryCalls) = 2
    /\ Len(shouldRetryCalls) = 2
    /\ onRetryCalls[2].delayMs # onRetryCalls[1].delayMs

\* C29: when fn first succeeds at attempt k <= maxRetries, retry resolves with the
\* result of that attempt; fn has been invoked exactly k + 1 times, the k
\* failures before it were all accepted by the predicate and waited for, and
\* nothing of them is surfaced. The call stays resolved, so fn is not invoked
\* again.
SuccessResolvesWithResult ==
    retryState = "resolved" =>
        /\ attempt <= retryOpts.maxRetries
        /\ retrySettled.kind = "result"
        /\ retrySettled.from = attempt
        /\ ~retrySettled.wraps
        /\ invocations = attempt + 1
        /\ Len(thrown) = attempt
        /\ \A i \in 1..Len(thrown) : retrySettled # thrown[i]
        /\ Len(shouldRetryCalls) = attempt
        /\ \A i \in 1..Len(shouldRetryCalls) : shouldRetryCalls[i].answer = "true"
        /\ Len(waited) = attempt

\* fn failed at the attempts 0 and 1 and succeeded at attempt 2
SuccessResolvesWithResultWitness ==
    /\ retryState = "resolved"
    /\ attempt = 2
    /\ invocations = 3
    /\ Len(thrown) = 2
    /\ lastError # NoValue

-----------------------------------------------------------------------------
(* escapeShellArg and the input schema *)

\* a word read by the POSIX shell: within single quotes every character stands
\* for itself up to the closing quote; outside them a backslash makes the next
\* character stand for itself, a quote opens a quoted part, and a dollar or a
\* blank is interpreted (ok is then FALSE, as for a quote left open)
RECURSIVE ShellRead(_, _)
ShellRead(s, inQuote) ==
    IF s = <<>> THEN [word |-> <<>>, ok |-> ~inQuote]
    ELSE IF inQuote
    THEN IF Head(s) = Quote THEN ShellRead(Tail(s), FALSE)
         ELSE LET rest == ShellRead(Tail(s), TRUE)
              IN [word |-> <<Head(s)>> \o rest.word, ok |-> rest.ok]
    ELSE IF Head(s) = Quote THEN ShellRead(Tail(s), TRUE)
    ELSE IF Head(s) = Backslash
    THEN IF Len(s) < 2 THEN [word |-> <<>>, ok |-> FALSE]
         ELSE LET rest == ShellRead(Tail(Tail(s)), FALSE)
              IN [word |-> <<s[2]>> \o rest.word, ok |-> rest.ok]
    ELSE LET rest == ShellRead(Tail(s), FALSE)
         IN [word |-> <<Head(s)>> \o rest.word, ok |-> rest.ok /\ Head(s) \notin {"$", " "}]

\* the single quotes of arg before position i
QuotesBefore(arg, i) == Cardinality({j \in 1..(i - 1) : arg[j] = Quote})

-----------------------------------------------------------------------------
(* The tool handler *)

\* the requests whose handler obtained a sandbox
WithSandbox == {r \in Requests : requests[r].sandbox # 0}

\* C22: a handler that obtained a sandbox has called kill on it exactly once
\* when it returns, whichever way the run went; kill is called on a sandbox by
\* the handler that created it and by no other; a kill that fails leaves a
\* warning in the log and the response computed before it is the one returned
SandboxKilledOnceOnEveryPath ==
    /\ \A r \in WithSandbox :
            /\ \A q \in WithSandbox : requests[q].sandbox = requests[r].sandbox => q = r
            /\ requests[r].state \in {"killing", "returned"}
                    => kills[requests[r].sandbox] = <<r>>
            /\ requests[r].state \in {"installing", "executing"}
                    => kills[requests[r].sandbox] = <<>>
            /\ requests[r].state \notin {"idle", "creating", "thrown"}
            /\ requests[r].state = "returned"
                    => /\ requests[r].returned = requests[r].response
                       /\ requests[r].returned.text
                                \in {"Remote Agent Result", "Error executing remote agent"}
                       /\ requests[r].killOutcome \in {"resolved", "rejected"}
                       /\ requests[r].killOutcome = "rejected"
                            <=> ServerLog("warn", "Failed to kill sandbox", r) \in serverLogs
    /\ \A s \in E2BSandboxes :
            kills[s] # <<>> => \E r \in WithSandbox : requests[r].sandbox = s
    /\ created = Cardinality(WithSandbox)

SandboxKilledOnceOnEveryPathWitness ==
    \E r, q \in WithSandbox :
        /\ r # q
        /\ requests[r].state = "returned"
        /\ requests[q].state = "returned"
        /\ requests[r].killOutcome = "rejected"
        /\ ~requests[r].returned.isError
        /\ requests[q].returned.isError
        /\ Len(requests[q].commands) = 1

\* the arguments the schema of the handler is meant to accept
WellFormed(arguments) ==
    /\ arguments.object
    /\ arguments.task_description.type = "string"
    /\ arguments.task_description.length \in 1..maxTaskLength
    /\ arguments.requirements.type \in {"undefined", "string"}

\* the spawn_remote_agent calls made with arguments that fail validation
InvalidCalls ==
    {r \in Requests : /\ requests[r].state # "idle"
                      /\ requests[r].name = "spawn_remote_agent"
                      /\ ~WellFormed(requests[r].arguments)}

\* C23: a spawn_remote_agent call whose arguments fail validation returns a
\* response with isError true that reports the invalid input; no sandbox is
\* created, no command run and nothing killed for it
InvalidInputTouchesNothing ==
    /\ \A r \in InvalidCalls :
            /\ requests[r].state = "returned"
            /\ requests[r].returned = Response("Invalid input", TRUE)
            /\ requests[r].sandbox = 0
            /\ requests[r].commands = <<>>
            /\ \A s \in E2BSandboxes : \A i \in 1..Len(kills[s]) : kills[s][i] # r
            /\ \A l \in serverLogs : l.by # r
    /\ created <= Cardinality(Requests \ InvalidCalls)

InvalidInputTouchesNothingWitness ==
    /\ \E r \in InvalidCalls : requests[r].arguments.task_description.length > maxTaskLength
    /\ \E r \in InvalidCalls : requests[r].arguments.requirements.type = "null"
    /\ created = 0

-----------------------------------------------------------------------------
(* The sequence of attempts of one retry call *)

\* the invocations of fn whose promise has not settled
PendingInvocations ==
    invocations - Len(thrown) - (IF retryState = "resolved" THEN 1 ELSE 0)

\* C37: fn is never invoked while an earlier invocation is pending; attempt
\* a + 1 starts only after attempt a has rejected and the delay computed for it
\* has elapsed; the attempt indices are 0, 1, 2, ... without gaps
AttemptsOneAtATime ==
    /\ PendingInvocations = (IF retryState = "pending" THEN 1 ELSE 0)
    /\ retryState # "idle" => invocations = attempt + 1
    /\ \A i \in 1..Len(thrown) : thrown[i].from = i - 1
    /\ retryState = "pending" => Len(thrown) = attempt
    /\ Len(waited) = attempt
    /\ \A i \in 1..Len(waited) : i <= Len(delays) /\ waited[i] = delays[i]
    /\ retryState = "resolved" => retrySettled.from = attempt

AttemptsOneAtATimeWitness ==
    /\ retryState = "pending"
    /\ attempt = 2
    /\ waited[1] > 0
    /\ waited[2] > waited[1]

\* C39: when shouldRetry or onRetry throws while the failure of attempt a is
\* handled, retry rejects with the value the callback threw; fn has been invoked
\* a + 1 times and is not invoked again, and the delays waited are those of the
\* a earlier failures only
CallbackThrowStopsRetry ==
    /\ \A i \in 1..Len(shouldRetryCalls) :
            shouldRetryCalls[i].answer = "throws" =>
                /\ retryState = "rejected"
                /\ retrySettled = Value("thrownByShouldRetry", i - 1)
                /\ invocations = i
                /\ Len(delays) = i - 1
                /\ Len(waited) = i - 1
                /\ Len(onRetryCalls) <= i - 1
    /\ retrySettled.kind = "thrownByOnRetry" =>
            /\ retryState = "rejected"
            /\ retryOpts.onRetry
            /\ Len(onRetryCalls) = retrySettled.from + 1
            /\ invocations = retrySettled.from + 1
            /\ Len(waited) = retrySettled.from
    /\ retrySettled.kind \in {"thrownByShouldRetry", "thrownByOnRetry"} =>
            /\ retrySettled.from = attempt
            /\ retrySettled # lastError
            /\ ~ENABLED NextRetry

CallbackThrowStopsRetryWitness ==
    /\ retrySettled.kind \in {"thrownByShouldRetry", "thrownByOnRetry"}
    /\ attempt = 1
    /\ retryOpts.maxRetries = 2
    /\ waited # <<>>

-----------------------------------------------------------------------------
(* toRemoteAgentError *)

\* what C33 asks of the coercion of utilInput into result, the code of a wrapped
\* value being unknownCode
Coerced(result, again, unknownCode) ==
    /\ result.type = "RemoteAgentError"
    /\ again = result
    /\ IF utilInput.type = "RemoteAgentError"
       THEN result = utilInput
       ELSE /\ result.name = "RemoteAgentError"
            /\ result.code = unknownCode
            /\ result.id # utilInput.id
            /\ IF utilInput.type = "Error"
               THEN /\ result.message = utilInput.message
                    /\ result.context.present
                    /\ result.context.originalName = utilInput.name
                    /\ result.context.originalStack = utilInput.stack
               ELSE /\ ~result.context.present
                    /\ utilInput.type = "string" => result.message = utilInput.message
                    /\ utilInput.type = "number" => result.message = ToString(utilInput.number)
                    /\ utilInput.type \in {"undefined", "null"}
                            => result.message = utilInput.type

\* C33 as stated: a value outside the taxonomy is given the code UNKNOWN
CoercionGivesUnknown ==
    Len(utilOutput.value) = 2 =>
        Coerced(utilOutput.value[1], utilOutput.value[2], "UNKNOWN")

\* C33, amended: toRemoteAgentError returns an error of the taxonomy as it is,
\* the same object with its class and code, so that a second application
\* returns what the first did; every other value becomes a RemoteAgentError
\* with the code UNKNOWN_ERROR and the message of the value (its string form
\* when it is not an Error), the name and stack of an Error kept as context
CoercionGivesUnknownError ==
    Len(utilOutput.value) = 2 =>
        Coerced(utilOutput.value[1], utilOutput.value[2], "UNKNOWN_ERROR")

CoercionGivesUnknownErrorWitness ==
    /\ Len(utilOutput.value) = 2
    /\ utilInput.type = "Error"
    /\ utilInput.name = "TypeError"
    /\ utilInput.message = "boom"
    /\ utilOutput.value[2].context.originalName = "TypeError"

-----------------------------------------------------------------------------
(* Histogram reads *)

IsPrefix(s, t) == Len(s) <= Len(t) /\ \A i \in 1..Len(s) : s[i] = t[i]

\* C32: getHistogramValues returns the recorded samples in insertion order, as
\* an array of its own: whatever the caller does to it, the stored samples stay
\* the samples recorded, in the order they were recorded, and so do the results
\* of later reads; neither do the statistics of a snapshot, computed on a sorted
\* copy, reorder them
ReadsReturnCopies ==
    /\ \A n \in HistogramName : IsPrefix(histograms[n], submittedValues[n])
    /\ \A n \in HistogramName :
            Len(histograms[n]) + Cardinality({i \in 1..Len(lockQueue) :
                                                /\ lockQueue[i].op = "recordHistogram"
                                                /\ lockQueue[i].name = n})
                = Len(submittedValues[n])
    /\ lastRead.op = "getHistogramValues" =>
            \/ lastRead.value = lastRead.expect
            \/ lastRead.value = Changed(lastRead.expect)
    /\ lastRead.op = "getMetrics" => lastRead.value = lastRead.expect

\* the caller has changed the array it was given for three unsorted samples; the
\* store holds them as recorded, and a sample recorded since
ReadsReturnCopiesWitness ==
    /\ lastRead.op = "getHistogramValues"
    /\ Len(lastRead.expect) = 3
    /\ lastRead.expect[1] > lastRead.expect[2]
    /\ lastRead.value = Changed(lastRead.expect)
    /\ Len(histograms[lastRead.name]) = 4
    /\ IsPrefix(lastRead.expect, histograms[lastRead.name])

-----------------------------------------------------------------------------
(* The serialization point of metrics.ts *)

\* the withLock calls made so far: every operation submitted, a measureTime call
\* counting from the moment its fn has settled
WithLockCalls ==
    submittedOps - Cardinality({c \in MeasureCalls : measure[c].state = "running"})

\* C34: the lock never deadlocks. Every call made through withLock has settled
\* or waits in the chain, and while one waits the first of the chain can run;
\* the calls run one at a time, first come first served; a call whose body
\* throws is rejected, leaves the chain like any other and changes nothing, the
\* calls behind it being fulfilled or rejected by their own bodies alone; and
\* in the end no call is left waiting.
LockNeverDeadlocks ==
    /\ [](/\ settled.fulfilled + settled.rejected + Len(lockQueue) = WithLockCalls
          /\ lockQueue # <<>> => ENABLED RunLocked)
    /\ [][settled' # settled =>
            LET o == lockQueue[1]
                failed == o.name \notin HistogramName \cup CounterName \cup {"all"}
            IN /\ lockQueue' = Tail(lockQueue)
               /\ settled'.fulfilled + settled'.rejected
                    = settled.fulfilled + settled.rejected + 1
               /\ settled'.rejected = settled.rejected + 1 <=> failed
               /\ failed => UNCHANGED <<counters, histograms, lastRead, measure>>]_vars
    /\ <>[](lockQueue = <<>>)

LockNeverDeadlocksWitness ==
    /\ settled.rejected = 1
    /\ settled.fulfilled = 2
    /\ lockQueue = <<>>
    /\ histograms["execution_time"] # <<>>

\* the locked calls waiting in the chain that measureTime call c made
QueuedBy(c) == {i \in 1..Len(lockQueue) : lockQueue[i].by = Caller[c]}

\* the samples of histogram n followed by those waiting in the chain, in order
RECURSIVE WithQueued(_, _, _)
WithQueued(values, q, n) ==
    IF q = <<>> THEN values
    ELSE WithQueued(IF Head(q).op = "recordHistogram" /\ Head(q).name = n
                    THEN Append(values, Head(q).amount) ELSE values,
                    Tail(q), n)

\* C38: measureTime does not hold the lock while the wrapped operation runs.
\* Whatever the state of the measureTime calls, the first call of the chain can
\* run; a call whose wrapped operation is pending has nothing in the chain and
\* no sample in the histogram, one whose operation has settled has exactly one
\* recordHistogram in the chain until its sample is appended; and the samples
\* stand in the histogram in the order the wrapped operations settled.
MeasureTimeLeavesLockFree ==
    /\ lockQueue # <<>> => ENABLED RunLocked
    /\ \A c \in MeasureCalls :
            /\ measure[c].state \in {"idle", "running"} =>
                    QueuedBy(c) = {} /\ measure[c].appended = 0
            /\ measure[c].state = "recording" =>
                    Cardinality(QueuedBy(c)) = 1 /\ measure[c].appended = 0
            /\ measure[c].state \in {"resolved", "rejected"} =>
                    QueuedBy(c) = {} /\ measure[c].appended = 1
    /\ \A n \in HistogramName : WithQueued(histograms[n], lockQueue, n) = submittedValues[n]

\* while the wrapped operation of one measureTime call is pending, another call
\* has rejected after appending its sample and a read has returned that sample
MeasureTimeLeavesLockFreeWitness ==
    /\ measure[1].state = "running"
    /\ measure[2].state = "rejected"
    /\ lastRead.op = "getHistogramValues"
    /\ Len(lastRead.value) = 1
    /\ lockQueue = <<>>

-----------------------------------------------------------------------------
(* Late settlements, the snapshot of the drain, replaced handles *)

\* the kill() promise of sandbox s settles in this step, its race lost to the timer
SettlesLate(s) ==
    /\ killState[s] = "pending"
    /\ killState'[s] = "settled"
    /\ \E i \in sandboxIds : taskSandbox[i] = s /\ task[i] = "timeout"

\* C31: when kill() settles, resolved or rejected, after the timer of its race
\* has fired, nothing else happens: registry, shutdown flag and promise, the
\* outcomes of the races, the number of kill() calls, the log, the awaiting
\* callers and the exit state stay as they are; no fault handler runs
LateSettlementIgnored ==
    [][\A s \in Sandboxes : SettlesLate(s) =>
            UNCHANGED <<sandboxRegistry, isShuttingDown, shutdownPromise, task, killCount,
                        logs, waiters, exitBy, exitCode, executions, calls, finishedAt>>]_vars

LateSettlementIgnoredWitness ==
    \E i \in sandboxIds :
        /\ task[i] = "timeout"
        /\ killState[taskSandbox[i]] = "settled"
        /\ shutdownPromise = "pending"
        /\ sandboxRegistry # {}

\* C35: the sandboxes a shutdown execution calls kill() on are those of the ids
\* the registry holds when shutdownAll is first called. The step that starts the
\* execution calls kill() once on the sandbox of every entry, before anything
\* else can run; no later step calls kill(), whatever is unregistered or
\* registered meanwhile, so a sandbox registered after that instant is never
\* killed and one unregistered after it has been.
DrainKillsFirstSnapshot ==
    /\ [](/\ executions = 0 => \A s \in Sandboxes : killCount[s] = 0
          /\ executions > 0 =>
                \A s \in Sandboxes :
                    killCount[s] = (IF \E i \in sandboxIds : taskSandbox[i] = s THEN 1 ELSE 0))
    /\ [][IF executions = 0 /\ executions' > 0
          THEN /\ sandboxIds' = RegisteredIds
               /\ \A e \in sandboxRegistry :
                    taskSandbox'[e.id] = e.sandbox /\ killCount'[e.sandbox] = 1
               /\ \A s \in Sandboxes :
                    killCount'[s] = 1 => \E e \in sandboxRegistry : e.sandbox = s
          ELSE UNCHANGED <<killCount, sandboxIds, taskSandbox>>]_vars

\* the drain called kill() on the sandbox registered before it began and has
\* finished, its kill() still pending, without a call on the one registered after
DrainKillsFirstSnapshotWitness ==
    /\ shutdownPromise = "resolved"
    /\ nextSandbox = 2
    /\ killCount[1] = 1
    /\ killCount[2] = 0
    /\ killState[1] = "pending"
    /\ task["a"] = "racing"
    /\ sandboxRegistry = {}

\* C36: registerSandbox with an id already present replaces the entry; kill() is
\* only ever called on the sandbox registered last for its id, so a replaced
\* sandbox is never killed by the drain
ReplacedHandleNeverKilled ==
    /\ [](\A e, f \in sandboxRegistry : e.id = f.id => e = f)
    /\ [][\A s \in Sandboxes :
            killCount'[s] > killCount[s] =>
                \E e \in sandboxRegistry :
                    /\ e.sandbox = s
                    /\ \A f \in sandboxRegistry : f.id = e.id => f.sandbox <= s]_vars
    /\ [][\A id \in Ids, s \in Sandboxes :
            (/\ [id |-> id, sandbox |-> s] \in sandboxRegistry
             /\ \E f \in sandboxRegistry' : f.id = id /\ f.sandbox > s)
                => /\ [id |-> id, sandbox |-> s] \notin sandboxRegistry'
                   /\ killCount'[s] = killCount[s]]_vars
    /\ [](\A s \in Sandboxes :
            killCount[s] > 0 => \E i \in sandboxIds : taskSandbox[i] = s)

\* the id a was registered twice; the drain killed the second sandbox and not
\* the first
ReplacedHandleNeverKilledWitness ==
    /\ nextSandbox = 2
    /\ taskSandbox["a"] = 2
    /\ killCount[2] = 1
    /\ killCount[1] = 0
    /\ sandboxIds = {"a"}

=========================================================================
